---- MODULE Spec2Model ----
(***************************************************************************)
(* Schema tree, deviations and module loading of libyang                   *)
(* (src/src/parser_yang.c).  The schema nodes and the modules live in two  *)
(* heaps indexed by small integers; a pointer is an index, NULL is 0.      *)
(***************************************************************************)
EXTENDS Integers, Sequences, FiniteSets, TLC

\* ----------------------------------------------------------------------
\* Bounds of the model
\* ----------------------------------------------------------------------
\* the number of schema nodes the tree specification allocates
MaxTreeNodes == 3
\* the number of deviate statements of one deviation
MaxDeviates == 2
\* the number of property statements of one deviation
MaxProps == 2
\* the number of lys_switch_deviations calls after a load
MaxSwitches == 3
\* the number of deviation statements of a module read statement by statement
MaxDeviations == 2
\* the number of if-feature statements of one feature
MaxIfFeatures == 2
\* the number of revision statements of a module
MaxRevisions == 3
\* the number of at-most-once statements read for one module, node and type
MaxStatements == 2
\* the number of enum statements or bit statements of one type
MaxEnums == 3
\* the leaves of the module whose leafrefs are resolved
MaxLeaves == 3
\* the schema nodes of the module whose NACM flags are inherited
MaxNacmNodes == 3
\* the nodes read into the grouping that is used
MaxGroupNodes == 2
\* the nodes read into container c and into the augments of c
MaxAugNodes == 3
\* the schema nodes and the data nodes of a tree whose mandatory nodes are checked
MaxMandNodes == 3
MaxInstances == 2
\* the siblings among which a node is replaced, and the children of that node
MaxSiblings == 3
MaxSwitchChildren == 2
\* the schema nodes lys_getnext iterates over
MaxNextNodes == 3
\* the nodes of a printed data tree
MaxXmlNodes == 3

\* ----------------------------------------------------------------------
\* Program constants and types
\* ----------------------------------------------------------------------
NULL == 0
NULLSTR == "<null>"

\* the size of the node heap
HeapSize == MaxTreeNodes + 11
NodeIds == 1..HeapSize
\* an upper bound of the steps of any walk over a well-formed tree of the heap
Fuel == HeapSize + 1
ModIds == 1..5

DataTypes == {"leaf", "leaflist", "list", "container", "choice", "anyxml"}

VARIABLES nodes, mods, models, cur, op, load

vars == <<nodes, mods, models, cur, op, load>>

\* a calloc'ed struct lys_node (every field zero)
ZeroNode ==
  [name |-> NULLSTR, nodetype |-> "unknown", module |-> NULL, parent |-> NULL,
   prev |-> NULL, next |-> NULL, child |-> NULL, target |-> NULL, flags |-> {},
   nacm |-> {},
   units |-> NULLSTR, dflt |-> NULLSTR, cdflt |-> NULL, min |-> 0, max |-> 0,
   must |-> <<>>, unique |-> <<>>, keys |-> <<>>]

\* a calloc'ed struct lys_module
ZeroMod ==
  [name |-> NULLSTR, rev |-> NULLSTR, type |-> 0, belongsto |-> NULL,
   implemented |-> 0, deviated |-> 0, imp |-> <<>>, inc |-> <<>>,
   data |-> NULL, deviation |-> <<>>, augment |-> <<>>]

\* a calloc'ed struct lys_deviate; LY_DEVIATE_NO is the zero of its enum
ZeroDeviate ==
  [mod |-> "no", flags |-> {}, units |-> NULLSTR, dflt |-> NULLSTR,
   min |-> 0, max |-> 0, min_set |-> 0, max_set |-> 0, must |-> <<>>, unique |-> <<>>]

\* a calloc'ed struct lys_deviation with its deviate[] slab
ZeroDeviation ==
  [target_name |-> [mod |-> NULLSTR, path |-> <<>>], orig_node |-> NULL,
   deviate_size |-> 0, deviate |-> [i \in 1..MaxDeviates |-> ZeroDeviate]]

CONFIG_MASK == {"CONFIG_W", "CONFIG_R"}
MAND_MASK == {"MAND_TRUE", "MAND_FALSE"}

SeqSet(s) == {s[i] : i \in 1..Len(s)}

World(nd, md) == [nodes |-> nd, mods |-> md]

UsedNodes(nd) == {n \in NodeIds : nd[n].nodetype # "unknown"}

\* the lowest free slot of the node heap (calloc), NULL when the heap is full
FreeNodes(nd) == {n \in NodeIds : nd[n].nodetype = "unknown"}
AllocNode(nd) == IF FreeNodes(nd) = {} THEN NULL
                 ELSE CHOOSE n \in FreeNodes(nd) : \A k \in FreeNodes(nd) : n <= k

\* ----------------------------------------------------------------------
\* Module helpers
\* ----------------------------------------------------------------------
lys_main_module(md, m) == IF md[m].type # 0 THEN md[m].belongsto ELSE m

lys_node_module(w, n) ==
  IF n = NULL THEN NULL ELSE lys_main_module(w.mods, w.nodes[n].module)

lys_parent(nd, n) ==
  IF n = NULL \/ nd[n].parent = NULL THEN NULL
  ELSE IF nd[nd[n].parent].nodetype = "augment" THEN nd[nd[n].parent].target
  ELSE nd[n].parent

\* ----------------------------------------------------------------------
\* lys_node_unlink
\* ----------------------------------------------------------------------
\* 3134-3137: from the last sibling back to the first one of a top-level list
RECURSIVE unlink_first(_, _, _)
unlink_first(nd, first, fuel) ==
  IF fuel = 0 THEN first
  ELSE IF nd[nd[first].prev].next # NULL THEN unlink_first(nd, nd[first].prev, fuel - 1)
  ELSE first

\* 3097-3103: the data pointer of the main module leaves the node
unlink_data(w, node) ==
  IF w.nodes[node].module # NULL /\ w.mods[lys_node_module(w, node)].data = node
  THEN [w.mods EXCEPT ![lys_node_module(w, node)].data = w.nodes[node].next]
  ELSE w.mods

unlink_in_augment(nd, node) ==
  nd[node].parent # NULL /\ nd[nd[node].parent].nodetype = "augment"

\* 3106-3114: the parent to go on with, the target of an augment parent
unlink_parent(nd, node) ==
  IF unlink_in_augment(nd, node) THEN nd[nd[node].parent].target ELSE nd[node].parent

\* 3108-3111: the child pointer of an augment parent
unlink_augment(nd, node) ==
  IF unlink_in_augment(nd, node) /\ nd[nd[node].parent].child = node
  THEN [nd EXCEPT ![nd[node].parent].child = nd[node].next]
  ELSE nd

\* 3117-3122: unlink from the parent
unlink_child(nd, node, parent) ==
  IF parent = NULL THEN nd
  ELSE IF nd[parent].child = node
  THEN [nd EXCEPT ![parent].child = nd[node].next, ![node].parent = NULL]
  ELSE [nd EXCEPT ![node].parent = NULL]

\* 3129-3140: the successor, or the first sibling, takes over the prev pointer
unlink_next(nd, node, parent) ==
  IF nd[node].next # NULL THEN [nd EXCEPT ![nd[node].next].prev = nd[node].prev]
  ELSE IF parent # NULL THEN [nd EXCEPT ![nd[parent].child].prev = nd[node].prev]
  ELSE [nd EXCEPT ![unlink_first(nd, node, Fuel)].prev = nd[node].prev]

\* 3141-3143
unlink_prev(nd, node) ==
  IF nd[nd[node].prev].next # NULL THEN [nd EXCEPT ![nd[node].prev].next = nd[node].next]
  ELSE nd

\* 3146-3147
unlink_clean(nd, node) == [nd EXCEPT ![node].next = NULL, ![node].prev = node]

\* 3124-3147: unlink from the siblings
unlink_siblings(nd, node, parent) ==
  IF nd[node].prev = node THEN nd
  ELSE unlink_clean(unlink_prev(unlink_next(nd, node, parent), node), node)

lys_node_unlink(w, node) ==
  IF node = NULL THEN w
  ELSE World(unlink_siblings(unlink_child(unlink_augment(w.nodes, node), node,
                                          unlink_parent(w.nodes, node)),
                             node, unlink_parent(w.nodes, node)),
             unlink_data(w, node))

\* ----------------------------------------------------------------------
\* lys_check_id
\* ----------------------------------------------------------------------
\* 3305-3316: climb from the parent over uses, case, choice and resolved augments
RECURSIVE check_id_top(_, _)
check_id_top(nd, iter) ==
  IF iter # NULL /\ nd[iter].nodetype \in {"uses", "case", "choice", "augment"}
  THEN IF nd[iter].nodetype = "augment"
       THEN IF nd[iter].target # NULL THEN check_id_top(nd, nd[iter].target) ELSE iter
       ELSE check_id_top(nd, nd[iter].parent)
  ELSE iter

\* 3353-3363: the do-while that leaves a finished sibling list
RECURSIVE check_id_up(_, _, _)
check_id_up(nd, iter, stop) ==
  IF nd[iter].parent = stop THEN stop
  ELSE LET p == lys_parent(nd, iter)
       IN IF p # NULL /\ nd[p].next # NULL THEN p
          ELSE IF p # stop THEN check_id_up(nd, p, stop)
          ELSE p

\* 3331-3334, 3346-3370: where the scan goes on after iter, NULL at its end
check_id_next(nd, iter, stop) ==
  IF nd[iter].nodetype \in {"uses", "case", "choice"} THEN nd[iter].child
  ELSE IF nd[iter].next # NULL THEN nd[iter].next
  ELSE IF check_id_up(nd, iter, stop) = stop THEN NULL
  ELSE nd[check_id_up(nd, iter, stop)].next

\* 3336-3344: a data node of node's module with node's name
check_id_match(nd, iter, node) ==
  /\ nd[iter].nodetype \in DataTypes
  /\ nd[iter].module = nd[node].module
  /\ nd[iter].name = nd[node].name

\* 3329-3370: TRUE when a data node of node's module with node's name is met
RECURSIVE check_id_scan(_, _, _, _, _)
check_id_scan(nd, iter, stop, node, fuel) ==
  IF iter = NULL \/ fuel = 0 THEN FALSE
  ELSE check_id_match(nd, iter, node)
       \/ check_id_scan(nd, check_id_next(nd, iter, stop), stop, node, fuel - 1)

\* 3380-3389: LY_TREE_FOR over the siblings of a new case
RECURSIVE check_id_case(_, _, _)
check_id_case(nd, iter, node) ==
  IF iter = NULL THEN FALSE
  ELSE IF /\ nd[iter].nodetype \in {"anyxml", "case", "container", "leaf", "leaflist", "list"}
          /\ nd[iter].module = nd[node].module
          /\ nd[iter].name = nd[node].name
       THEN TRUE
  ELSE check_id_case(nd, nd[iter].next, node)

\* 3303-3326: where the scan of the data nodes starts
check_id_start(w, parent, module) ==
  IF parent # NULL /\ check_id_top(w.nodes, parent) # NULL
  THEN w.nodes[check_id_top(w.nodes, parent)].child
  ELSE w.mods[module].data

check_id_stop(nd, parent) == IF parent # NULL THEN check_id_top(nd, parent) ELSE NULL

\* EXIT_SUCCESS is "ok", EXIT_FAILURE is "fail"
lys_check_id(w, node, parent, module) ==
  IF w.nodes[node].nodetype \in DataTypes
  THEN IF check_id_scan(w.nodes, check_id_start(w, parent, module),
                        check_id_stop(w.nodes, parent), node, Fuel)
       THEN "fail" ELSE "ok"
  ELSE IF w.nodes[node].nodetype = "case"
  THEN IF check_id_case(w.nodes,
                        IF parent # NULL THEN w.nodes[parent].child ELSE w.mods[module].data,
                        node)
       THEN "fail" ELSE "ok"
  ELSE "ok"

\* ----------------------------------------------------------------------
\* lys_node_addchild
\* ----------------------------------------------------------------------
\* 3417-3478: the child node types each parent type admits (type 0 is top level)
addchild_allowed(ptype) ==
  IF ptype \in {"container", "list", "grouping", "uses", "input", "output", "notif"}
  THEN {"anyxml", "choice", "container", "grouping", "leaf", "leaflist", "list", "uses"}
  ELSE IF ptype = "choice"
  THEN {"anyxml", "case", "container", "leaf", "leaflist", "list"}
  ELSE IF ptype = "case"
  THEN {"anyxml", "choice", "container", "leaf", "leaflist", "list", "uses"}
  ELSE IF ptype = "rpc"
  THEN {"input", "output", "grouping"}
  ELSE IF ptype \in {"leaf", "leaflist", "anyxml"}
  THEN {}
  ELSE IF ptype = "augment"
  THEN {"anyxml", "case", "choice", "container", "leaf", "leaflist", "list", "uses"}
  ELSE {"anyxml", "choice", "container", "leaf", "grouping", "leaflist", "list",
        "uses", "rpc", "notif", "augment"}

\* 3509-3512: every node after iter gets the parent; yields <<heap, last node>>
RECURSIVE addchild_parents(_, _, _, _)
addchild_parents(nd, iter, parent, fuel) ==
  IF nd[iter].next = NULL \/ fuel = 0 THEN <<nd, iter>>
  ELSE addchild_parents([nd EXCEPT ![nd[iter].next].parent = parent],
                        nd[iter].next, parent, fuel - 1)

\* 3519-3529: LYS_INCL_STATUS climbs to the enclosing containers and lists
RECURSIVE addchild_status(_, _)
addchild_status(nd, iter) ==
  IF iter = NULL THEN nd
  ELSE IF nd[iter].nodetype \in {"container", "list"}
       THEN IF "INCL_STATUS" \in nd[iter].flags THEN nd
            ELSE addchild_status([nd EXCEPT ![iter].flags = @ \cup {"INCL_STATUS"}],
                                 lys_parent(nd, iter))
  ELSE addchild_status(nd, lys_parent(nd, iter))

\* 3490-3497: a top-level node goes to the end of the module's data
addchild_top(w, module, child) ==
  IF w.mods[module].data # NULL
  THEN World([w.nodes EXCEPT ![w.nodes[w.mods[module].data].prev].next = child,
                             ![child].prev = w.nodes[w.mods[module].data].prev,
                             ![w.mods[module].data].prev = child],
             w.mods)
  ELSE World(w.nodes, [w.mods EXCEPT ![module].data = child])

\* 3499-3508: the only child, or the new last child; iter is where the walk starts
addchild_iter(nd, parent, child) ==
  IF nd[parent].child = NULL THEN child ELSE nd[nd[parent].child].prev

addchild_first(nd, parent, child) ==
  IF nd[parent].child = NULL
  THEN [nd EXCEPT ![parent].child = child, ![child].parent = parent]
  ELSE [nd EXCEPT ![nd[nd[parent].child].prev].next = child,
                  ![child].prev = nd[nd[parent].child].prev]

\* 3513: the first child points back to the last node of the walk
addchild_last(walked, parent) ==
  [walked[1] EXCEPT ![walked[1][parent].child].prev = walked[2]]

addchild_below(nd, parent, child) ==
  addchild_last(addchild_parents(addchild_first(nd, parent, child),
                                 addchild_iter(nd, parent, child), parent, Fuel),
                parent)

addchild_link(w, parent, module, child) ==
  IF parent = NULL THEN addchild_top(w, module, child)
  ELSE World(addchild_below(w.nodes, parent, child), w.mods)

\* 3516-3530
addchild_propagate(w, parent, child) ==
  IF w.nodes[child].nodetype \in DataTypes /\ "INCL_STATUS" \in w.nodes[child].flags
  THEN World(addchild_status(w.nodes, parent), w.mods)
  ELSE w

\* 3485-3487
addchild_unlinked(w, child) ==
  IF w.nodes[child].parent # NULL THEN lys_node_unlink(w, child) ELSE w

AddchildResult(ret, w) == [ret |-> ret, nodes |-> w.nodes, mods |-> w.mods]

addchild_module(nd, parent, module) == IF parent # NULL THEN nd[parent].module ELSE module

addchild_type(nd, parent) == IF parent # NULL THEN nd[parent].nodetype ELSE "unknown"

\* yields [ret, nodes, mods]
lys_node_addchild(w, parent, module, child) ==
  IF w.nodes[child].nodetype \notin addchild_allowed(addchild_type(w.nodes, parent))
  THEN AddchildResult("fail", w)
  ELSE IF lys_check_id(w, child, parent, addchild_module(w.nodes, parent, module)) # "ok"
  THEN AddchildResult("fail", w)
  ELSE AddchildResult("ok",
         addchild_propagate(
           addchild_link(addchild_unlinked(w, child), parent,
                         addchild_module(w.nodes, parent, module), child),
           parent, child))

\* ----------------------------------------------------------------------
\* yang_read_node, yang_read_augment
\* ----------------------------------------------------------------------
\* 515-527: the calloc'ed node with its name, module and type
read_node_calloc(w, module, value, nodetype) ==
  World([w.nodes EXCEPT ![AllocNode(w.nodes)] =
           [ZeroNode EXCEPT !.name = value, !.module = module, !.nodetype = nodetype,
                            !.prev = AllocNode(w.nodes)]],
        w.mods)

\* 529-536: a node that cannot be linked is freed again
read_node_result(r, w) ==
  IF r.ret = "ok"
  THEN [ret |-> "ok", node |-> AllocNode(w.nodes), nodes |-> r.nodes, mods |-> r.mods]
  ELSE [ret |-> "fail", node |-> NULL, nodes |-> w.nodes, mods |-> w.mods]

\* yields [ret, node, nodes, mods]
yang_read_node(w, module, parent, value, nodetype) ==
  read_node_result(
    lys_node_addchild(read_node_calloc(w, module, value, nodetype), parent,
                      lys_main_module(w.mods, module), AllocNode(w.nodes)),
    w)

\* a top-level augment: a slot of module->augment[], not linked anywhere
yang_read_augment(w, module, value) ==
  World([w.nodes EXCEPT ![AllocNode(w.nodes)] =
           [ZeroNode EXCEPT !.name = value, !.module = module, !.nodetype = "augment"]],
        [w.mods EXCEPT ![module].augment = Append(@, AllocNode(w.nodes))])


\* ----------------------------------------------------------------------
\* Schema node identifiers (resolve.c is not part of the sources at hand)
\* ----------------------------------------------------------------------
\* the sibling of first that carries the name, NULL when there is none
RECURSIVE find_sibling(_, _, _, _)
find_sibling(nd, first, name, fuel) ==
  IF first = NULL \/ fuel = 0 THEN NULL
  ELSE IF nd[first].name = name THEN first
  ELSE find_sibling(nd, nd[first].next, name, fuel - 1)

RECURSIVE resolve_path(_, _, _)
resolve_path(nd, first, path) ==
  LET hit == find_sibling(nd, first, Head(path), Fuel)
  IN IF hit = NULL THEN NULL
     ELSE IF Len(path) = 1 THEN hit
     ELSE resolve_path(nd, nd[hit].child, Tail(path))

\* an absolute schema node identifier, looked up from the top of the module
resolve_augment_schema_nodeid(w, path, module) ==
  IF module = NULL \/ path = <<>> THEN NULL
  ELSE resolve_path(w.nodes, w.mods[module].data, path)

resolve_choice_default_schema_nodeid(nd, name, first) == find_sibling(nd, first, name, Fuel)

\* the token names a leaf below the list
resolve_unique(nd, list, token) ==
  LET hit == find_sibling(nd, nd[list].child, token, Fuel)
  IN hit # NULL /\ nd[hit].nodetype = "leaf"

\* ----------------------------------------------------------------------
\* lys_get_import_module (called with the name of a module)
\* ----------------------------------------------------------------------
RECURSIVE import_by_name(_, _, _, _)
import_by_name(md, imp, i, name) ==
  IF i > Len(imp) THEN NULL
  ELSE IF md[imp[i].module].name = name THEN imp[i].module
  ELSE import_by_name(md, imp, i + 1, name)

lys_get_import_module(md, module, name) ==
  LET main_module == lys_main_module(md, module)
  IN IF md[main_module].name = name THEN main_module
     ELSE import_by_name(md, md[module].imp, 1, name)

\* ----------------------------------------------------------------------
\* lys_node_dup with shallow = 1: the copy a deviation keeps of its target
\* ----------------------------------------------------------------------
\* yields [node, nodes]
lys_node_dup_shallow(nd, module, node, flags) ==
  LET retval == AllocNode(nd)
      own == nd[node].flags
      copy == [ZeroNode EXCEPT
                 !.name = nd[node].name,
                 !.flags = IF own \cap CONFIG_MASK = {} THEN own \cup (flags \cap CONFIG_MASK)
                           ELSE own,
                 !.module = module,
                 !.nodetype = nd[node].nodetype,
                 !.prev = retval,
                 !.units = nd[node].units,
                 !.dflt = nd[node].dflt,
                 !.cdflt = nd[node].cdflt,
                 !.min = nd[node].min,
                 !.max = nd[node].max,
                 !.must = nd[node].must,
                 !.unique = nd[node].unique,
                 !.keys = nd[node].keys]
  IN [node |-> retval, nodes |-> [nd EXCEPT ![retval] = copy]]

\* ----------------------------------------------------------------------
\* lys_deviation_add_ext_imports
\* ----------------------------------------------------------------------
ImportsModule(imp, m) == \E j \in 1..Len(imp) : imp[j].module = m

\* 5491-5514: the imports of the deviating module the target does not have yet
RECURSIVE copy_imports(_, _, _)
copy_imports(timp, dimp, i) ==
  IF i > Len(dimp) THEN timp
  ELSE IF ImportsModule(timp, dimp[i].module) THEN copy_imports(timp, dimp, i + 1)
  ELSE copy_imports(Append(timp, [module |-> dimp[i].module, external |-> 1]), dimp, i + 1)

\* as lys_deviation_add_ext_imports, but the import table is left as it is
lys_deviation_add_ext_imports_flag(md, dev_target_module, dev_module) ==
  [md EXCEPT ![dev_target_module].deviated = 1]

lys_deviation_add_ext_imports(md, dev_target_module, dev_module) ==
  LET imp1 == copy_imports(md[dev_target_module].imp, md[dev_module].imp, 1)
      imp2 == IF ImportsModule(imp1, dev_module)
              THEN [j \in 1..Len(imp1) |->
                      IF imp1[j].module = dev_module /\
                         (\A k \in 1..(j - 1) : imp1[k].module # dev_module)
                      THEN [imp1[j] EXCEPT !.external = 2] ELSE imp1[j]]
              ELSE Append(imp1, [module |-> dev_module, external |-> 2])
  IN [md EXCEPT ![dev_target_module].deviated = 1, ![dev_target_module].imp = imp2]

\* ----------------------------------------------------------------------
\* yang_read_deviation and the deviate statements
\* ----------------------------------------------------------------------
\* struct type_deviation: the deviation (module, index), the target, the open deviate
NoDev == [mod |-> NULL, idx |-> 0, target |-> NULL, deviate |-> 0]

TheDeviation(md, d) == md[d.mod].deviation[d.idx]
TheDeviate(md, d) == TheDeviation(md, d).deviate[d.deviate]

\* yields [ret, dev, mods]; the parser counts the slot deviation[deviation_size]
\* right after a successful return, which is the Append here
yang_read_deviation(w, module, value) ==
  LET md == w.mods
      nd == w.nodes
      failed == [ret |-> "fail", dev |-> NoDev, mods |-> md]
      dev_target == resolve_augment_schema_nodeid(
                      w, value.path, lys_get_import_module(md, module, value.mod))
  IN IF dev_target = NULL THEN failed
     ELSE IF nd[dev_target].module = lys_main_module(md, module) THEN failed
     ELSE LET md1 == lys_deviation_add_ext_imports(md, lys_node_module(w, dev_target), module)
              md2 == [md1 EXCEPT ![module].deviation =
                                   Append(@, [ZeroDeviation EXCEPT !.target_name = value])]
          IN [ret |-> "ok",
              dev |-> [mod |-> module, idx |-> Len(md2[module].deviation),
                       target |-> dev_target, deviate |-> 0],
              mods |-> md2]

IsListKey(nd, n) ==
  /\ nd[n].nodetype = "leaf"
  /\ nd[n].parent # NULL
  /\ nd[nd[n].parent].nodetype = "list"
  /\ n \in SeqSet(nd[nd[n].parent].keys)

\* 1476-1479: the unlinked target is the original node
unsupported_store(w, d) ==
  [ret |-> "ok", nodes |-> w.nodes,
   mods |-> [w.mods EXCEPT ![d.mod].deviation[d.idx].orig_node = d.target,
                           ![d.mod].deviation[d.idx].deviate_size = 1]]

\* as yang_read_deviate_unsupported, but a key leaf is removed like any node
yang_read_deviate_unsupported_key(w, d) ==
  IF TheDeviation(w.mods, d).deviate_size # 0
  THEN [ret |-> "fail", nodes |-> w.nodes, mods |-> w.mods]
  ELSE unsupported_store(lys_node_unlink(w, d.target), d)

\* yields [ret, nodes, mods]
yang_read_deviate_unsupported(w, d) ==
  LET dv == TheDeviation(w.mods, d)
  IN IF dv.deviate_size # 0
     THEN [ret |-> "fail", nodes |-> w.nodes, mods |-> w.mods]
     ELSE LET md1 == [w.mods EXCEPT ![d.mod].deviation[d.idx].deviate[1].mod = "no"]
          IN IF IsListKey(w.nodes, d.target)
             THEN [ret |-> "fail", nodes |-> w.nodes, mods |-> md1]
             ELSE unsupported_store(lys_node_unlink(World(w.nodes, md1), d.target), d)

\* yields [ret, dev, nodes, mods]
yang_read_deviate(w, d, mod) ==
  LET dv == TheDeviation(w.mods, d)
      k == dv.deviate_size + 1
      md1 == [w.mods EXCEPT ![d.mod].deviation[d.idx].deviate[k].mod = mod,
                            ![d.mod].deviation[d.idx].deviate_size = k]
      d1 == [d EXCEPT !.deviate = k]
  IN IF md1[d.mod].deviation[d.idx].deviate[1].mod = "no"
     THEN [ret |-> "fail", dev |-> d1, nodes |-> w.nodes, mods |-> md1]
     ELSE IF dv.orig_node = NULL
     THEN LET c == lys_node_dup_shallow(w.nodes, w.nodes[d.target].module, d.target, {})
          IN [ret |-> "ok", dev |-> d1, nodes |-> c.nodes,
              mods |-> [md1 EXCEPT ![d.mod].deviation[d.idx].orig_node = c.node]]
     ELSE [ret |-> "ok", dev |-> d1, nodes |-> w.nodes, mods |-> md1]

\* ----------------------------------------------------------------------
\* The property statements of a deviate; each yields [ret, nodes, mods]
\* ----------------------------------------------------------------------
DevResult(ret, nd, md) == [ret |-> ret, nodes |-> nd, mods |-> md]

\* as yang_read_deviate_units, but a replace of absent units sets them
yang_read_deviate_units_set(w, d, value) ==
  LET nd == w.nodes
      md == w.mods
      t == d.target
      dvt == TheDeviate(md, d)
      md1 == [md EXCEPT ![d.mod].deviation[d.idx].deviate[d.deviate].units = value]
  IN IF dvt.units # NULLSTR THEN DevResult("fail", nd, md)
     ELSE IF nd[t].nodetype \notin {"leaflist", "leaf"} THEN DevResult("fail", nd, md)
     ELSE IF dvt.mod = "del"
     THEN IF nd[t].units # value THEN DevResult("fail", nd, md1)
          ELSE DevResult("ok", nd, md1)
     ELSE IF dvt.mod = "add" /\ nd[t].units # NULLSTR THEN DevResult("fail", nd, md1)
     ELSE DevResult("ok", [nd EXCEPT ![t].units = value], md1)

yang_read_deviate_units(w, d, value) ==
  LET nd == w.nodes
      md == w.mods
      t == d.target
      dvt == TheDeviate(md, d)
      md1 == [md EXCEPT ![d.mod].deviation[d.idx].deviate[d.deviate].units = value]
  IN IF dvt.units # NULLSTR THEN DevResult("fail", nd, md)
     ELSE IF nd[t].nodetype \notin {"leaflist", "leaf"} THEN DevResult("fail", nd, md)
     ELSE IF dvt.mod = "del"
     THEN IF nd[t].units # value THEN DevResult("fail", nd, md1)
          ELSE DevResult("ok", nd, md1)
     ELSE IF dvt.mod = "add" /\ nd[t].units # NULLSTR THEN DevResult("fail", nd, md1)
     ELSE IF dvt.mod # "add" /\ nd[t].units = NULLSTR THEN DevResult("fail", nd, md1)
     ELSE DevResult("ok", [nd EXCEPT ![t].units = value], md1)

yang_read_deviate_default(w, d, value) ==
  LET nd == w.nodes
      md == w.mods
      t == d.target
      dvt == TheDeviate(md, d)
      md1 == [md EXCEPT ![d.mod].deviation[d.idx].deviate[d.deviate].dflt = value]
      node == resolve_choice_default_schema_nodeid(nd, value, nd[t].child)
  IN IF dvt.dflt # NULLSTR THEN DevResult("fail", nd, md)
     ELSE IF nd[t].nodetype = "choice"
     THEN IF node = NULL THEN DevResult("fail", nd, md1)
          ELSE IF dvt.mod = "del"
          THEN IF nd[t].cdflt = NULL \/ nd[t].cdflt # node THEN DevResult("fail", nd, md1)
               ELSE DevResult("ok", [nd EXCEPT ![t].cdflt = NULL], md1)
          ELSE IF dvt.mod = "add" /\ nd[t].cdflt # NULL THEN DevResult("fail", nd, md1)
          ELSE IF dvt.mod = "add" /\ "MAND_TRUE" \in nd[t].flags THEN DevResult("fail", nd, md1)
          ELSE IF dvt.mod # "add" /\ nd[t].cdflt = NULL THEN DevResult("fail", nd, md1)
          ELSE DevResult("ok", [nd EXCEPT ![t].cdflt = node], md1)
     ELSE IF nd[t].nodetype = "leaf"
     THEN IF dvt.mod = "del"
          THEN IF nd[t].dflt = NULLSTR \/ nd[t].dflt # value THEN DevResult("fail", nd, md1)
               ELSE DevResult("ok", [nd EXCEPT ![t].dflt = NULLSTR], md1)
          ELSE IF dvt.mod = "add" /\ nd[t].dflt # NULLSTR THEN DevResult("fail", nd, md1)
          ELSE IF dvt.mod = "add" /\ "MAND_TRUE" \in nd[t].flags THEN DevResult("fail", nd, md1)
          ELSE IF dvt.mod # "add" /\ nd[t].dflt = NULLSTR THEN DevResult("fail", nd, md1)
          ELSE DevResult("ok", [nd EXCEPT ![t].dflt = value], md1)
     ELSE DevResult("fail", nd, md1)

\* value is LYS_CONFIG_W or LYS_CONFIG_R
yang_read_deviate_config(w, d, value) ==
  LET nd == w.nodes
      md == w.mods
      t == d.target
      dvt == TheDeviate(md, d)
      dflags == dvt.flags \cup {value}
      md1 == [md EXCEPT ![d.mod].deviation[d.idx].deviate[d.deviate].flags = dflags]
  IN IF dvt.flags \cap CONFIG_MASK # {} THEN DevResult("fail", nd, md)
     ELSE DevResult("ok",
                    [nd EXCEPT ![t].flags = (@ \ CONFIG_MASK) \cup (dflags \cap CONFIG_MASK)],
                    md1)

\* as yang_read_deviate_mandatory, but an add overwrites what the target has
yang_read_deviate_mandatory_overwrite(w, d, value) ==
  LET nd == w.nodes
      md == w.mods
      t == d.target
      dvt == TheDeviate(md, d)
      dflags == dvt.flags \cup {value}
      md1 == [md EXCEPT ![d.mod].deviation[d.idx].deviate[d.deviate].flags = dflags]
  IN IF dvt.flags \cap MAND_MASK # {} THEN DevResult("fail", nd, md)
     ELSE IF nd[t].nodetype \notin {"leaf", "choice", "anyxml"} THEN DevResult("fail", nd, md)
     ELSE IF dvt.mod # "add" /\ nd[t].flags \cap MAND_MASK = {} THEN DevResult("fail", nd, md1)
     ELSE DevResult("ok",
                    [nd EXCEPT ![t].flags = (@ \ MAND_MASK) \cup (dflags \cap MAND_MASK)],
                    md1)

\* value is LYS_MAND_TRUE or LYS_MAND_FALSE
yang_read_deviate_mandatory(w, d, value) ==
  LET nd == w.nodes
      md == w.mods
      t == d.target
      dvt == TheDeviate(md, d)
      dflags == dvt.flags \cup {value}
      md1 == [md EXCEPT ![d.mod].deviation[d.idx].deviate[d.deviate].flags = dflags]
  IN IF dvt.flags \cap MAND_MASK # {} THEN DevResult("fail", nd, md)
     ELSE IF nd[t].nodetype \notin {"leaf", "choice", "anyxml"} THEN DevResult("fail", nd, md)
     ELSE IF dvt.mod = "add" /\ nd[t].flags \cap MAND_MASK # {} THEN DevResult("fail", nd, md1)
     ELSE IF dvt.mod = "add" /\ nd[t].nodetype = "leaf" /\ nd[t].dflt # NULLSTR
     THEN DevResult("fail", nd, md1)
     ELSE IF dvt.mod = "add" /\ nd[t].nodetype = "choice" /\ nd[t].cdflt # NULL
     THEN DevResult("fail", nd, md1)
     ELSE IF dvt.mod # "add" /\ nd[t].flags \cap MAND_MASK = {} THEN DevResult("fail", nd, md1)
     ELSE DevResult("ok",
                    [nd EXCEPT ![t].flags = (@ \ MAND_MASK) \cup (dflags \cap MAND_MASK)],
                    md1)

\* type 0 is min-elements, anything else max-elements
yang_read_deviate_minmax(w, d, value, type) ==
  LET nd == w.nodes
      md == w.mods
      t == d.target
      dvt == TheDeviate(md, d)
      ui32val == IF type # 0 THEN nd[t].max ELSE nd[t].min
      md1 == IF type # 0
             THEN [md EXCEPT ![d.mod].deviation[d.idx].deviate[d.deviate].max = value,
                             ![d.mod].deviation[d.idx].deviate[d.deviate].max_set = 1]
             ELSE [md EXCEPT ![d.mod].deviation[d.idx].deviate[d.deviate].min = value,
                             ![d.mod].deviation[d.idx].deviate[d.deviate].min_set = 1]
  IN IF nd[t].nodetype \notin {"leaflist", "list"} THEN DevResult("fail", nd, md)
     ELSE IF dvt.mod = "add" /\ ui32val # 0 THEN DevResult("fail", nd, md1)
     ELSE DevResult("ok",
                    IF type # 0 THEN [nd EXCEPT ![t].max = value]
                    ELSE [nd EXCEPT ![t].min = value],
                    md1)

\* a struct lys_restr that only has its expression
Restr(expr) == [expr |-> expr, dsc |-> NULLSTR, emsg |-> NULLSTR]

\* the array without entry i, the last entry moved into the gap
RemoveAt(arr, i) ==
  LET last == Len(arr)
  IN [j \in 1..(last - 1) |-> IF j = i /\ i # last THEN arr[last] ELSE arr[j]]

FirstIndex(S) == CHOOSE i \in S : \A j \in S : i <= j

\* the target types that carry must statements
yang_read_deviate_must(nd, d) ==
  nd[d.target].nodetype \in {"leaf", "container", "leaflist", "list", "anyxml"}

\* yang_read_must with ADD_KEYWORD: the new entry goes to the end of the target's array
yang_read_must_add(w, d, value) ==
  DevResult("ok", [w.nodes EXCEPT ![d.target].must = Append(@, Restr(value))], w.mods)

\* yang_read_must with DELETE_KEYWORD: the entry goes to the deviate's own array
yang_read_must_delete(w, d, value) ==
  DevResult("ok", w.nodes,
            [w.mods EXCEPT ![d.mod].deviation[d.idx].deviate[d.deviate].must =
                             Append(@, Restr(value))])

yang_check_deviate_must(w, d) ==
  LET nd == w.nodes
      t == d.target
      dm == TheDeviate(w.mods, d).must
      expr == dm[Len(dm)].expr
      hits == {i \in 1..Len(nd[t].must) : nd[t].must[i].expr = expr}
  IN IF hits = {} THEN DevResult("fail", nd, w.mods)
     ELSE DevResult("ok", [nd EXCEPT ![t].must = RemoveAt(@, FirstIndex(hits))], w.mods)

yang_read_deviate_unique(nd, d) == nd[d.target].nodetype = "list"

\* yang_fill_unique without unres: value is the list of tokens of the argument
yang_fill_unique(nd, list, value) ==
  /\ \A i \in 1..Len(value), j \in 1..Len(value) : i # j => value[i] # value[j]
  /\ \A i \in 1..Len(value) : resolve_unique(nd, list, value[i])

\* as yang_check_deviate_unique, but the tokens are compared in any order
yang_check_deviate_unique_anyorder(w, d, value) ==
  LET nd == w.nodes
      t == d.target
      md1 == [w.mods EXCEPT ![d.mod].deviation[d.idx].deviate[d.deviate].unique =
                              Append(@, value)]
      hits == {i \in 1..Len(nd[t].unique) : SeqSet(nd[t].unique[i]) = SeqSet(value)}
  IN IF ~yang_fill_unique(nd, t, value) THEN DevResult("fail", nd, md1)
     ELSE IF hits = {} THEN DevResult("fail", nd, md1)
     ELSE DevResult("ok", [nd EXCEPT ![t].unique = RemoveAt(@, FirstIndex(hits))], md1)

yang_check_deviate_unique(w, d, value) ==
  LET nd == w.nodes
      t == d.target
      md1 == [w.mods EXCEPT ![d.mod].deviation[d.idx].deviate[d.deviate].unique =
                              Append(@, value)]
      hits == {i \in 1..Len(nd[t].unique) : nd[t].unique[i] = value}
  IN IF ~yang_fill_unique(nd, t, value) THEN DevResult("fail", nd, md1)
     ELSE IF hits = {} THEN DevResult("fail", nd, md1)
     ELSE DevResult("ok", [nd EXCEPT ![t].unique = RemoveAt(@, FirstIndex(hits))], md1)

\* ----------------------------------------------------------------------
\* Walks used to state properties and to pick the inputs of the actions
\* ----------------------------------------------------------------------
\* the nodes met from n along next, in order (cut after Fuel steps on a cycle)
RECURSIVE Chain(_, _, _)
Chain(nd, n, fuel) ==
  IF n = NULL \/ fuel = 0 THEN <<>> ELSE <<n>> \o Chain(nd, nd[n].next, fuel - 1)

\* everything reachable from the roots over child and next
RECURSIVE Reach(_, _, _)
Reach(nd, set, fuel) ==
  LET more == set \cup {nd[x].next : x \in set} \cup {nd[x].child : x \in set}
      step == more \ {NULL}
  IN IF fuel = 0 \/ step = set THEN set ELSE Reach(nd, step, fuel - 1)

\* the nodes linked into the data tree of a module or below one of its augments
Linked(nd, md) ==
  Reach(nd, ({md[m].data : m \in ModIds} \cup UNION {SeqSet(md[m].augment) : m \in ModIds})
            \ {NULL}, Fuel)

Subtree(nd, n) == {n} \cup Reach(nd, {nd[n].child} \ {NULL}, Fuel)

\* an allocated node that hangs nowhere
Detached(nd, md, n) ==
  /\ nd[n].nodetype \notin {"unknown", "augment"}
  /\ n \notin Linked(nd, md)
  /\ nd[n].prev = n /\ nd[n].next = NULL

\* ----------------------------------------------------------------------
\* Specification SpecTree: one module whose tree is built and taken apart
\* ----------------------------------------------------------------------
TreeNames == {"a", "b"}
TreeTypes == {"container", "leaf", "choice", "case", "uses"}
TreeMod == 1

NoCur == [phase |-> "none"]
\* no module is being loaded
NoLoad == [phase |-> "none", implement |-> 0, saved |-> <<>>, hist |-> <<>>,
           switches |-> <<>>]
NoOp == [name |-> "init", ret |-> "ok", node |-> NULL, parent |-> NULL]

InitTree ==
  /\ nodes = [n \in NodeIds |-> ZeroNode]
  /\ mods = [m \in ModIds |-> IF m = TreeMod THEN [ZeroMod EXCEPT !.name = "C"] ELSE ZeroMod]
  /\ models = <<TreeMod>>
  /\ cur = NoCur
  /\ op = NoOp
  /\ load = NoLoad

TreeOp(name, ret, node, parent) ==
  [name |-> name, ret |-> ret, node |-> node, parent |-> parent]

\* the step of the tree specification that yields r
TreeStep(r, o) ==
  /\ nodes' = r.nodes
  /\ mods' = r.mods
  /\ op' = o
  /\ UNCHANGED <<models, cur, load>>

TreeRead(r, parent) == TreeStep(r, TreeOp("addchild", r.ret, r.node, parent))

\* a statement of a data node below an open statement (yang_read_node), or
\* a copy of a grouping's node put below a uses (lys_node_dup, 4846)
TreeReadNode ==
  \E parent \in (Linked(nodes, mods) \cup {NULL}), name \in TreeNames, type \in TreeTypes :
    /\ Cardinality(UsedNodes(nodes)) < MaxTreeNodes
    /\ TreeRead(yang_read_node(World(nodes, mods), TreeMod, parent, name, type), parent)

\* an augment statement at the top of the module; its target is not resolved yet
TreeReadAugment ==
  /\ Cardinality(UsedNodes(nodes)) < MaxTreeNodes
  /\ mods[TreeMod].augment = <<>>
  /\ TreeStep(yang_read_augment(World(nodes, mods), TreeMod, "/C:a"),
              TreeOp("augment", "ok", AllocNode(nodes), NULL))

\* lys_node_unlink of a node of the tree
TreeUnlink ==
  \E n \in Linked(nodes, mods) :
    /\ nodes[n].nodetype # "augment"
    /\ TreeStep(lys_node_unlink(World(nodes, mods), n),
                TreeOp("unlink", "ok", n, nodes[n].parent))

TreeLink(r, n, parent) == TreeStep(r, TreeOp("addchild", r.ret, n, parent))

\* lys_node_addchild of a node that was unlinked before (as lys_switch_deviation does)
TreeAddChild ==
  \E parent \in (Linked(nodes, mods) \cup {NULL}), n \in NodeIds :
    /\ Detached(nodes, mods, n)
    /\ TreeLink(lys_node_addchild(World(nodes, mods), parent, TreeMod, n), n, parent)

NextTree == TreeReadNode \/ TreeReadAugment \/ TreeUnlink \/ TreeAddChild

SpecTree == InitTree /\ [][NextTree]_vars

\* ----------------------------------------------------------------------
\* C2: names of data nodes at one instantiated level
\* ----------------------------------------------------------------------
\* the nearest ancestor that is no uses, case, choice or resolved augment
RECURSIVE LevelUp(_, _)
LevelUp(nd, p) ==
  IF p = NULL THEN NULL
  ELSE IF nd[p].nodetype \in {"uses", "case", "choice"} THEN LevelUp(nd, nd[p].parent)
  ELSE IF nd[p].nodetype = "augment" /\ nd[p].target # NULL THEN LevelUp(nd, nd[p].target)
  ELSE p

LevelOf(nd, n) == LevelUp(nd, nd[n].parent)

SameLevelSameName(nd, md, n1, n2) ==
  /\ n1 # n2
  /\ n1 \in Linked(nd, md) /\ n2 \in Linked(nd, md)
  /\ nd[n1].nodetype \in DataTypes /\ nd[n2].nodetype \in DataTypes
  /\ nd[n1].module = nd[n2].module
  /\ nd[n1].name = nd[n2].name
  /\ LevelOf(nd, n1) = LevelOf(nd, n2)

\* C2: after any sequence of successful lys_node_addchild calls no two data
\* nodes of one module at the same instantiated level carry the same name
\* (uses, case and choice nodes are looked through, empty ones included).
C2_NoDuplicateNames ==
  \A n1 \in NodeIds, n2 \in NodeIds : ~SameLevelSameName(nodes, mods, n1, n2)

\* ----------------------------------------------------------------------
\* C3: the sibling lists
\* ----------------------------------------------------------------------
\* the list that starts at first is a well-formed child list of parent
WellFormedList(nd, first, parent) ==
  LET c == Chain(nd, first, Fuel)
  IN /\ Len(c) < Fuel
     /\ \A i \in 1..Len(c), j \in 1..Len(c) : i # j => c[i] # c[j]
     /\ nd[first].prev = c[Len(c)]
     /\ \A i \in 2..Len(c) : nd[c[i]].prev = c[i - 1]
     /\ \A i \in 1..Len(c) : nd[c[i]].parent = parent

SiblingsWellFormed(nd, md) ==
  /\ \A p \in UsedNodes(nd) :
       nd[p].child # NULL => WellFormedList(nd, nd[p].child, p)
  /\ \A m \in ModIds :
       md[m].data # NULL => WellFormedList(nd, md[m].data, NULL)

\* C3: after any sequence of lys_node_addchild and lys_node_unlink every
\* sibling list is well-formed (next ends at null and visits each child once,
\* first.prev is the last child, every other prev is the predecessor, parent
\* is the parent), a successful addchild leaves the child last, and unlink
\* leaves the removed node with parent = null, next = null, prev = itself.
C3_SiblingLists ==
  /\ SiblingsWellFormed(nodes, mods)
  /\ (op.name = "addchild" /\ op.ret = "ok") =>
        /\ nodes[op.node].next = NULL
        /\ nodes[op.node].parent = op.parent
        /\ op.parent # NULL => nodes[nodes[op.parent].child].prev = op.node
        /\ op.parent = NULL => nodes[mods[TreeMod].data].prev = op.node
  /\ op.name = "unlink" =>
        /\ nodes[op.node].parent = NULL
        /\ nodes[op.node].next = NULL
        /\ nodes[op.node].prev = op.node

\* ----------------------------------------------------------------------
\* A repository: module C with submodule Cs, module D, and E that imports both
\* ----------------------------------------------------------------------
ModC == 1
ModE == 2
ModCs == 3
ModD == 4
\* another revision of E, implemented, that some repositories hold
ModE2 == 5

\* the schema nodes in the order they are read; node i is the i-th entry
RepoTree ==
  << [parent |-> NULL, name |-> "c", nodetype |-> "container", module |-> ModC],
     [parent |-> 1, name |-> "l", nodetype |-> "leaf", module |-> ModC],
     [parent |-> 1, name |-> "ll", nodetype |-> "leaflist", module |-> ModC],
     [parent |-> 1, name |-> "lst", nodetype |-> "list", module |-> ModC],
     [parent |-> 4, name |-> "k", nodetype |-> "leaf", module |-> ModC],
     [parent |-> 4, name |-> "v", nodetype |-> "leaf", module |-> ModC],
     [parent |-> 1, name |-> "ch", nodetype |-> "choice", module |-> ModC],
     [parent |-> 7, name |-> "ca", nodetype |-> "leaf", module |-> ModC],
     [parent |-> 7, name |-> "cb", nodetype |-> "leaf", module |-> ModC],
     [parent |-> NULL, name |-> "s", nodetype |-> "leaf", module |-> ModCs],
     [parent |-> NULL, name |-> "d", nodetype |-> "container", module |-> ModD],
     [parent |-> 11, name |-> "y", nodetype |-> "leaf", module |-> ModD] >>

RepoMods ==
  [m \in ModIds |->
     IF m = ModC THEN [ZeroMod EXCEPT !.name = "C", !.implemented = 1, !.inc = <<ModCs>>]
     ELSE IF m = ModCs THEN [ZeroMod EXCEPT !.name = "Cs", !.type = 1, !.belongsto = ModC]
     ELSE IF m = ModD THEN [ZeroMod EXCEPT !.name = "D"]
     ELSE ZeroMod]

\* the properties the statements of the nodes set
RepoVariants == {"bare", "full", "mand"}

Decorate(nd, variant) ==
  IF variant = "bare" THEN [nd EXCEPT ![4].keys = <<5>>]
  ELSE [nd EXCEPT
          ![1].flags = {"CONFIG_W"},
          ![1].must = <<Restr("m2")>>,
          ![2].flags = IF variant = "mand" THEN {"CONFIG_W", "MAND_TRUE"} ELSE {"CONFIG_W"},
          ![2].units = "u1",
          ![2].dflt = IF variant = "mand" THEN NULLSTR ELSE "d1",
          ![3].flags = {"CONFIG_W"},
          ![3].units = "u1",
          ![3].min = 1,
          ![3].max = 2,
          ![3].must = <<Restr("m1")>>,
          ![4].flags = {"CONFIG_W"},
          ![4].keys = <<5>>,
          ![4].min = 1,
          ![4].max = 2,
          ![4].must = <<Restr("m1"), Restr("m2")>>,
          ![4].unique = << <<"k", "v">>, <<"v">> >>,
          ![5].flags = {"CONFIG_W"},
          ![6].flags = {"CONFIG_W"},
          ![7].flags = IF variant = "mand" THEN {"CONFIG_W", "MAND_TRUE"} ELSE {"CONFIG_W"},
          ![7].cdflt = IF variant = "mand" THEN NULL ELSE 8,
          ![8].flags = {"CONFIG_W"},
          ![9].flags = {"CONFIG_W"},
          ![10].flags = {"CONFIG_R"},
          ![11].flags = {"CONFIG_W"},
          ![12].flags = {"CONFIG_W", "MAND_FALSE"},
          ![12].units = "u1",
          ![12].dflt = "d1"]

\* the repository is read node by node; the last node read, the properties are set
RepoCur(variant, i) == [phase |-> "read", variant |-> variant, i |-> i]

RepoInit ==
  /\ nodes = [n \in NodeIds |-> ZeroNode]
  /\ mods = RepoMods
  /\ models = <<ModC, ModD>>
  /\ \E variant \in RepoVariants : cur = RepoCur(variant, 1)

\* the statement of node i
RepoReadNode(w, i) ==
  yang_read_node(w, RepoTree[i].module, RepoTree[i].parent, RepoTree[i].name,
                 RepoTree[i].nodetype)

\* ----------------------------------------------------------------------
\* Specification: the statements of one deviation
\* ----------------------------------------------------------------------
DevModules == {ModC, ModE, ModCs}
DevTargets ==
  {[mod |-> "C", path |-> p] :
     p \in {<<"c">>, <<"c", "l">>, <<"c", "ll">>, <<"c", "lst">>, <<"c", "lst", "k">>,
            <<"c", "ch">>, <<"s">>, <<"zz">>}}
  \cup {[mod |-> "D", path |-> <<"d", "y">>]}
\* the module that is read: E when a load is under way
Deviating == IF load.phase = "parse" THEN {ModE} ELSE DevModules
\* the deviate statements and the property statements read of a deviation; one
\* deviate less where the load goes on after them
DeviatesRead == IF load.phase = "parse" THEN MaxDeviates - 1 ELSE MaxDeviates
PropsRead == MaxProps
UnitsValues == {"u1", "u2"}
DfltValues == {"d1", "ca", "cb"}
MustValues == {"m1", "m3"}
UniqueValues == {<<"v">>, <<"v", "k">>, <<"k", "v">>}
MinMaxValues == {0, 1, 3}

\* what the last step saw before it acted
NoSeen == [target |-> NULL, node |-> ZeroNode, orig_node |-> NULL, deviate_size |-> 0,
           deviate |-> ZeroDeviate, key |-> FALSE, linked |-> FALSE, mods |-> <<>>]

Seen(d) ==
  [target |-> d.target, node |-> nodes[d.target],
   orig_node |-> TheDeviation(mods, d).orig_node,
   deviate_size |-> TheDeviation(mods, d).deviate_size,
   deviate |-> IF d.deviate = 0 THEN ZeroDeviate ELSE TheDeviate(mods, d),
   key |-> IsListKey(nodes, d.target),
   linked |-> d.target \in Linked(nodes, mods), mods |-> <<>>]

DevCur(phase, d, ndev, nprops, unsupported) ==
  [phase |-> phase, dev |-> d, ndev |-> ndev, nprops |-> nprops, unsupported |-> unsupported]

DevOp(name, mod, arg, ret, seen) ==
  [name |-> name, mod |-> mod, arg |-> arg, ret |-> ret, seen |-> seen]

InitDev ==
  /\ RepoInit
  /\ op = DevOp("init", "no", <<>>, "ok", NoSeen)
  /\ load = NoLoad

ModuleE ==
  [ZeroMod EXCEPT !.name = "E",
                  !.imp = <<[module |-> ModC, external |-> 0],
                            [module |-> ModD, external |-> 0]>>]

DevRead(r) ==
  /\ IF cur.i < Len(RepoTree)
     THEN /\ nodes' = r.nodes
          /\ mods' = r.mods
          /\ cur' = RepoCur(cur.variant, cur.i + 1)
     ELSE /\ nodes' = Decorate(r.nodes, cur.variant)
          /\ mods' = [r.mods EXCEPT ![ModE] = ModuleE]
          /\ cur' = DevCur("idle", NoDev, 0, 0, FALSE)
  /\ op' = DevOp("node", "no", <<>>, "ok", NoSeen)
  /\ UNCHANGED <<models, load>>

\* the next node of the repository; after the last one module E is about to be read
DevReadNode ==
  /\ cur.phase = "read"
  /\ DevRead(RepoReadNode(World(nodes, mods), cur.i))

DevTarget(r, module, value) ==
  /\ mods' = r.mods
  /\ cur' = DevCur(IF r.ret = "ok" THEN "deviation" ELSE "failed", r.dev, 0, 0, FALSE)
  /\ op' = DevOp("deviation", "no", <<module, value>>, r.ret,
                 [NoSeen EXCEPT
                    !.target = resolve_augment_schema_nodeid(
                                 World(nodes, mods), value.path,
                                 lys_get_import_module(mods, module, value.mod)),
                    !.mods = mods])
  /\ UNCHANGED <<nodes, models, load>>

DevReadDeviation ==
  /\ cur.phase = "idle"
  /\ load.phase \in {"none", "parse"}
  /\ \E module \in Deviating, value \in DevTargets :
       DevTarget(yang_read_deviation(World(nodes, mods), module, value), module, value)

DevNo(r) ==
  /\ nodes' = r.nodes
  /\ mods' = r.mods
  /\ cur' = DevCur(IF r.ret = "ok" THEN "deviation" ELSE "failed", cur.dev,
                   cur.ndev + 1, cur.nprops, cur.unsupported \/ r.ret = "ok")
  /\ op' = DevOp("unsupported", "no", <<>>, r.ret, Seen(cur.dev))
  /\ UNCHANGED <<models, load>>

DevUnsupported ==
  /\ cur.phase \in {"deviation", "deviate"}
  /\ cur.ndev < DeviatesRead
  /\ DevNo(yang_read_deviate_unsupported(World(nodes, mods), cur.dev))

DevMod(r, mod) ==
  /\ nodes' = r.nodes
  /\ mods' = r.mods
  /\ cur' = DevCur(IF r.ret = "ok" THEN "deviate" ELSE "failed", r.dev,
                   cur.ndev + 1, cur.nprops, cur.unsupported)
  /\ op' = DevOp("deviate", mod, <<>>, r.ret, Seen(cur.dev))
  /\ UNCHANGED <<models, load>>

DevDeviate ==
  /\ cur.phase \in {"deviation", "deviate"}
  /\ cur.ndev < DeviatesRead
  /\ \E mod \in {"add", "rpl", "del"} :
       DevMod(yang_read_deviate(World(nodes, mods), cur.dev, mod), mod)

\* a property statement inside the open deviate
DevStep(name, arg, r) ==
  /\ nodes' = r.nodes
  /\ mods' = r.mods
  /\ cur' = [cur EXCEPT !.phase = IF r.ret = "ok" THEN "deviate" ELSE "failed",
                        !.nprops = @ + 1]
  /\ op' = DevOp(name, TheDeviate(mods, cur.dev).mod, arg, r.ret, Seen(cur.dev))
  /\ UNCHANGED <<models, load>>

DevOpen(kinds) ==
  /\ cur.phase = "deviate"
  /\ cur.nprops < PropsRead
  /\ TheDeviate(mods, cur.dev).mod \in kinds

DevUnits ==
  /\ DevOpen({"add", "rpl", "del"})
  /\ \E value \in UnitsValues :
       DevStep("units", value, yang_read_deviate_units(World(nodes, mods), cur.dev, value))

DevDefault ==
  /\ DevOpen({"add", "rpl", "del"})
  /\ \E value \in DfltValues :
       DevStep("default", value, yang_read_deviate_default(World(nodes, mods), cur.dev, value))

DevConfig ==
  /\ DevOpen({"add", "rpl"})
  /\ \E value \in CONFIG_MASK :
       DevStep("config", value, yang_read_deviate_config(World(nodes, mods), cur.dev, value))

DevMandatory ==
  /\ DevOpen({"add", "rpl"})
  /\ \E value \in MAND_MASK :
       DevStep("mandatory", value,
               yang_read_deviate_mandatory(World(nodes, mods), cur.dev, value))

DevMinMax ==
  /\ DevOpen({"add", "rpl"})
  /\ \E value \in MinMaxValues, type \in {0, 1} :
       DevStep(IF type = 0 THEN "min" ELSE "max", value,
               yang_read_deviate_minmax(World(nodes, mods), cur.dev, value, type))

\* the must statement of a deviate: the array is set up (yang_read_deviate_must), the
\* statement is read (yang_read_must) and, in a deviate delete, looked up in the target
deviate_must(w, d, value) ==
  IF ~yang_read_deviate_must(w.nodes, d) THEN DevResult("fail", w.nodes, w.mods)
  ELSE IF TheDeviate(w.mods, d).mod = "add" THEN yang_read_must_add(w, d, value)
  ELSE yang_check_deviate_must(yang_read_must_delete(w, d, value), d)

DevMust ==
  /\ DevOpen({"add", "del"})
  /\ \E value \in MustValues :
       DevStep("must", value, deviate_must(World(nodes, mods), cur.dev, value))

\* the unique statement of a deviate delete
deviate_unique(w, d, value) ==
  IF ~yang_read_deviate_unique(w.nodes, d) THEN DevResult("fail", w.nodes, w.mods)
  ELSE yang_check_deviate_unique(w, d, value)

DevUnique ==
  /\ DevOpen({"del"})
  /\ \E value \in UniqueValues :
       DevStep("unique", value, deviate_unique(World(nodes, mods), cur.dev, value))

NextDev ==
  \/ DevReadNode
  \/ DevReadDeviation
  \/ DevUnsupported
  \/ DevDeviate
  \/ DevUnits
  \/ DevDefault
  \/ DevConfig
  \/ DevMandatory
  \/ DevMinMax
  \/ DevMust
  \/ DevUnique

SpecDev == InitDev /\ [][NextDev]_vars

\* ----------------------------------------------------------------------
\* lys_node_switch: src takes the place of dst, dst is left detached
\* ----------------------------------------------------------------------
\* 5094-5097: sibling next
switch_sibling_next(nd, dst, src) ==
  IF nd[dst].prev # dst THEN [nd EXCEPT ![nd[dst].prev].next = src] ELSE nd

\* 5099-5102: sibling prev
switch_sibling_prev(nd, dst, src) ==
  IF nd[dst].next # NULL THEN [nd EXCEPT ![nd[dst].next].prev = src] ELSE nd

\* 5104-5107: parent child prev
switch_child_prev(nd, dst, src) ==
  IF nd[dst].next = NULL /\ nd[dst].parent # NULL
  THEN [nd EXCEPT ![nd[nd[dst].parent].child].prev = src]
  ELSE nd

\* 5109-5111: next
switch_next(nd, dst, src) == [nd EXCEPT ![src].next = nd[dst].next, ![dst].next = NULL]

\* 5113-5117: prev
switch_prev(nd, dst, src) ==
  IF nd[dst].prev # dst THEN [nd EXCEPT ![src].prev = nd[dst].prev, ![dst].prev = dst]
  ELSE nd

\* 5119-5122: parent child
switch_parent_child(nd, dst, src) ==
  IF nd[dst].parent # NULL /\ nd[nd[dst].parent].child = dst
  THEN [nd EXCEPT ![nd[dst].parent].child = src]
  ELSE nd

\* 5124-5126: parent
switch_parent(nd, dst, src) ==
  [nd EXCEPT ![src].parent = nd[dst].parent, ![dst].parent = NULL]

\* 5128-5133: child parent
RECURSIVE switch_children(_, _, _, _, _)
switch_children(nd, child, dst, src, fuel) ==
  IF child = NULL \/ fuel = 0 THEN nd
  ELSE switch_children(IF nd[child].parent = dst THEN [nd EXCEPT ![child].parent = src]
                       ELSE nd,
                       nd[child].next, dst, src, fuel - 1)

\* 5135-5137: child
switch_child(nd, dst, src) == [nd EXCEPT ![src].child = nd[dst].child, ![dst].child = NULL]

switch_siblings(nd, dst, src) ==
  switch_prev(
    switch_next(
      switch_child_prev(
        switch_sibling_prev(switch_sibling_next(nd, dst, src), dst, src),
        dst, src),
      dst, src),
    dst, src)

switch_family(nd, dst, src) ==
  switch_child(
    switch_children(switch_parent(switch_parent_child(nd, dst, src), dst, src),
                    nd[dst].child, dst, src, Fuel),
    dst, src)

lys_node_switch(nd, dst, src) == switch_family(switch_siblings(nd, dst, src), dst, src)

\* ----------------------------------------------------------------------
\* lys_switch_deviation, lys_switch_deviations
\* ----------------------------------------------------------------------
\* dev->orig_node = value, in the world r
switch_store(r, dev_module, idx, value) ==
  World(r.nodes, [r.mods EXCEPT ![dev_module].deviation[idx].orig_node = value])

\* 5442-5448: the path of the parent of the target
switch_parent_path(dv) == SubSeq(dv.target_name.path, 1, Len(dv.target_name.path) - 1)

\* as switch_restore_below, but the deviation keeps its original node
switch_restore_below_keep(w, dev_module, idx, dv, target) ==
  IF target = NULL THEN w
  ELSE switch_store(lys_node_addchild(w, target, NULL, dv.orig_node), dev_module, idx,
                    dv.orig_node)

\* 5450: the original node goes back below the parent of its path
switch_restore_below(w, dev_module, idx, dv, target) ==
  IF target = NULL THEN w
  ELSE switch_store(lys_node_addchild(w, target, NULL, dv.orig_node), dev_module, idx, NULL)

\* 5436-5456: removing a not-supported deviation
switch_restore(w, dev_module, idx, dv, target_module) ==
  IF Len(dv.target_name.path) > 1
  THEN switch_restore_below(
         w, dev_module, idx, dv,
         resolve_augment_schema_nodeid(w, switch_parent_path(dv), target_module))
  ELSE switch_store(lys_node_addchild(w, NULL, target_module, dv.orig_node),
                    dev_module, idx, NULL)

\* 5458-5467: adding a not-supported deviation
switch_remove(w, dev_module, idx, target) ==
  IF target = NULL THEN w
  ELSE switch_store(lys_node_unlink(w, target), dev_module, idx, target)

\* 5469-5478: the target and the node the deviation keeps change places
switch_replace(w, dev_module, idx, dv, target) ==
  IF target = NULL THEN w
  ELSE switch_store(World(lys_node_switch(w.nodes, target, dv.orig_node), w.mods),
                    dev_module, idx, target)

switch_deviation(w, dev_module, idx, dv, target_module) ==
  IF dv.deviate[1].mod = "no"
  THEN IF dv.orig_node # NULL
       THEN switch_restore(w, dev_module, idx, dv, target_module)
       ELSE switch_remove(w, dev_module, idx,
                          resolve_augment_schema_nodeid(w, dv.target_name.path,
                                                        target_module))
  ELSE switch_replace(w, dev_module, idx, dv,
                      resolve_augment_schema_nodeid(w, dv.target_name.path, target_module))

\* yields the world after the deviation idx of dev_module changed sides
lys_switch_deviation(w, dev_module, idx) ==
  switch_deviation(w, dev_module, idx, w.mods[dev_module].deviation[idx],
                   lys_get_import_module(w.mods, dev_module,
                                         w.mods[dev_module].deviation[idx].target_name.mod))

\* 5552-5554: every deviation of one deviating module
RECURSIVE switch_module(_, _, _)
switch_module(w, dev_module, j) ==
  IF j > Len(w.mods[dev_module].deviation) THEN w
  ELSE switch_module(lys_switch_deviation(w, dev_module, j), dev_module, j + 1)

\* 5550-5558: the imports of the module the deviations came with
RECURSIVE switch_imports(_, _, _)
switch_imports(w, module, i) ==
  IF i > Len(w.mods[module].imp) THEN w
  ELSE IF w.mods[module].imp[i].external = 2
  THEN switch_imports(switch_module(w, w.mods[module].imp[i].module, 1), module, i + 1)
  ELSE switch_imports(w, module, i + 1)

\* 5561-5567
switch_flag(r, module, changes) ==
  IF changes
  THEN World(r.nodes, [r.mods EXCEPT ![module].deviated = IF @ # 0 THEN 0 ELSE 1])
  ELSE r

lys_switch_deviations(w, module) ==
  switch_flag(switch_imports(w, module, 1), module,
              \E i \in 1..Len(w.mods[module].imp) : w.mods[module].imp[i].external = 2)

\* ----------------------------------------------------------------------
\* lys_sub_module_remove_devs_augs
\* ----------------------------------------------------------------------
\* 5620-5637: the import the deviating module came with leaves orig_mod
remove_dev_import(md, orig_mod, main) ==
  [md EXCEPT
     ![orig_mod].imp = SelectSeq(@, LAMBDA e : ~(e.external = 2 /\ e.module = main)),
     ![orig_mod].deviated =
        IF \E j \in 1..Len(md[orig_mod].imp) :
             md[orig_mod].imp[j].external = 2 /\ md[orig_mod].imp[j].module # main
        THEN @ ELSE 0]

\* 5615-5637: what follows the switch of deviation i
remove_dev(r, module, i) ==
  IF r.mods[module].deviation[i].orig_node = NULL THEN r
  ELSE World(r.nodes,
             remove_dev_import(r.mods,
                               lys_node_module(r, r.mods[module].deviation[i].orig_node),
                               lys_main_module(r.mods, module)))

RECURSIVE remove_devs(_, _, _)
remove_devs(w, module, i) ==
  IF i > Len(w.mods[module].deviation) THEN w
  ELSE remove_devs(remove_dev(lys_switch_deviation(w, module, i), module, i), module, i + 1)

\* 5650-5655: elem is the first child of the augment, last is its last child
RECURSIVE remove_aug_last(_, _, _, _)
remove_aug_last(nd, aug, last, fuel) ==
  IF fuel = 0 \/ nd[last].next = NULL \/ nd[nd[last].next].parent # aug THEN last
  ELSE remove_aug_last(nd, aug, nd[last].next, fuel - 1)

\* 5658-5661: parent child ptr
remove_aug_child(nd, target, elem, last) ==
  IF nd[target].child = elem THEN [nd EXCEPT ![target].child = nd[last].next] ELSE nd

\* 5663-5666: parent child next ptr
remove_aug_next(nd, elem, last) ==
  IF nd[nd[elem].prev].next # NULL THEN [nd EXCEPT ![nd[elem].prev].next = nd[last].next]
  ELSE nd

\* as remove_aug_prev, but only a following sibling gets the prev pointer
remove_aug_prev_inner(nd, target, elem, last) ==
  IF nd[last].next # NULL THEN [nd EXCEPT ![nd[last].next].prev = nd[elem].prev]
  ELSE nd

\* 5668-5673: parent child prev ptr
remove_aug_prev(nd, target, elem, last) ==
  IF nd[last].next # NULL THEN [nd EXCEPT ![nd[last].next].prev = nd[elem].prev]
  ELSE IF nd[target].child # NULL THEN [nd EXCEPT ![nd[target].child].prev = nd[elem].prev]
  ELSE nd

\* 5675-5677: update augment children themselves
remove_aug_own(nd, elem, last) == [nd EXCEPT ![elem].prev = last, ![last].next = NULL]

\* 5657-5677
remove_aug_block(nd, target, elem, last) ==
  remove_aug_own(
    remove_aug_prev(remove_aug_next(remove_aug_child(nd, target, elem, last), elem, last),
                    target, elem, last),
    elem, last)

\* 5643-5681: one augment of the module
remove_aug(nd, aug) ==
  IF nd[aug].target = NULL THEN nd
  ELSE IF nd[aug].child = NULL THEN [nd EXCEPT ![aug].target = NULL]
  ELSE [remove_aug_block(nd, nd[aug].target, nd[aug].child,
                         remove_aug_last(nd, aug, nd[aug].child, Fuel))
          EXCEPT ![aug].target = NULL]

\* 5642-5682: remove applied augments
RECURSIVE remove_augs(_, _, _)
remove_augs(w, module, i) ==
  IF i > Len(w.mods[module].augment) THEN w
  ELSE remove_augs(World(remove_aug(w.nodes, w.mods[module].augment[i]), w.mods),
                   module, i + 1)

\* 5605-5683
lys_sub_module_remove_devs_augs(w, module) ==
  remove_augs(remove_devs(w, module, 1), module, 1)

\* ----------------------------------------------------------------------
\* lys_free of a module with deviations
\* ----------------------------------------------------------------------
\* free() of the nodes
node_free(r, freed) ==
  World([n \in NodeIds |-> IF n \in freed THEN ZeroNode ELSE r.nodes[n]], r.mods)

\* the node is unlinked and freed, unless shallow together with its subtree
lys_node_free(w, node, shallow) ==
  IF node = NULL THEN w
  ELSE node_free(lys_node_unlink(w, node),
                 IF shallow THEN {node} ELSE Subtree(w.nodes, node))

\* 4406-4419: the nodes of the deviation get the module that is freed
deviation_module(w, module, dv) ==
  World([n \in NodeIds |->
           IF n = dv.orig_node \/ (dv.deviate[1].mod = "no" /\ dv.orig_node # NULL
                                   /\ n \in Subtree(w.nodes, dv.orig_node))
           THEN [w.nodes[n] EXCEPT !.module = module] ELSE w.nodes[n]],
        w.mods)

\* a node that two deviations hold is freed twice, which is undefined: the heap
\* is left as the first free made it
lys_deviation_free(w, module, dv) ==
  IF dv.orig_node # NULL /\ w.nodes[dv.orig_node].nodetype = "unknown" THEN w
  ELSE lys_node_free(deviation_module(w, module, dv), dv.orig_node,
                     dv.deviate[1].mod # "no")

RECURSIVE deviations_free(_, _, _)
deviations_free(w, module, i) ==
  IF i > Len(w.mods[module].deviation) THEN w
  ELSE deviations_free(lys_deviation_free(w, module, w.mods[module].deviation[i]),
                       module, i + 1)

\* 5150-5171: the module leaves the models and is a zeroed slot again; yields
\* [nodes, mods, models]
free_module(r, mdls, module) ==
  [nodes |-> r.nodes, mods |-> [r.mods EXCEPT ![module] = ZeroMod],
   models |-> SelectSeq(mdls, LAMBDA m : m # module)]

lys_free(w, mdls, module) == free_module(deviations_free(w, module, 1), mdls, module)

\* ----------------------------------------------------------------------
\* lys_module_set_implement, lys_sub_module_set_dev_aug_target_implement
\* ----------------------------------------------------------------------
\* yields [ret, mods]
lys_module_set_implement_any(md, mdls, module) ==
  [ret |-> "ok", mods |-> [md EXCEPT ![module].implemented = 1]]

lys_module_set_implement(md, mdls, module) ==
  IF md[module].implemented # 0 THEN [ret |-> "ok", mods |-> md]
  ELSE IF \E i \in 1..Len(mdls) :
            /\ mdls[i] # module
            /\ md[mdls[i]].name = md[module].name
            /\ md[mdls[i]].implemented # 0
  THEN [ret |-> "fail", mods |-> md]
  ELSE [ret |-> "ok", mods |-> [md EXCEPT ![module].implemented = 1]]

RECURSIVE target_implement(_, _, _, _, _)
RECURSIVE target_implemented(_, _, _, _, _)
\* 5718-5724: the module of the target of deviation i
target_implement(nd, md, mdls, module, i) ==
  IF i > Len(md[module].deviation) THEN [ret |-> "ok", mods |-> md]
  ELSE target_implemented(
         nd,
         lys_module_set_implement(
           md, mdls, lys_node_module(World(nd, md), md[module].deviation[i].orig_node)),
         mdls, module, i)

target_implemented(nd, r, mdls, module, i) ==
  IF r.ret # "ok" THEN r ELSE target_implement(nd, r.mods, mdls, module, i + 1)

lys_sub_module_set_dev_aug_target_implement(w, mdls, module) ==
  target_implement(w.nodes, w.mods, mdls, module, 1)

\* ----------------------------------------------------------------------
\* yang_read_module once the statements are read
\* ----------------------------------------------------------------------
LoadResult(ret, r, mdls) ==
  [ret |-> ret, nodes |-> r.nodes, mods |-> r.mods, models |-> mdls]

LoadFailed(r) == LoadResult("fail", r, r.models)

\* 2301-2315: the cleanup of a failed load
read_module_error(w, mdls, module) ==
  LoadFailed(lys_free(lys_sub_module_remove_devs_augs(w, module), mdls, module))

\* 2286-2288
read_module_targets(nd, r, mdls, module) ==
  IF r.ret # "ok" THEN read_module_error(World(nd, r.mods), mdls, module)
  ELSE LoadResult("ok", World(nd, r.mods), mdls)

\* 2282-2284
read_module_implement(nd, r, mdls, module) ==
  IF r.ret # "ok" THEN read_module_error(World(nd, r.mods), mdls, module)
  ELSE read_module_targets(
         nd, lys_sub_module_set_dev_aug_target_implement(World(nd, r.mods), mdls, module),
         mdls, module)

\* 2278-2294: a module with deviations is implemented, and so are their targets
read_module_registered(w, mdls, module) ==
  IF w.mods[module].augment = <<>> /\ w.mods[module].deviation = <<>>
  THEN LoadResult("ok", w, mdls)
  ELSE read_module_implement(w.nodes, lys_module_set_implement(w.mods, mdls, module),
                             mdls, module)

\* the faults of a load: of yang_parse_mem (2251), resolve_unres_schema (2255), the
\* revision asked for (2259-2266) and lyp_ctx_add_module (2268-2271)
LoadFaults == {"parse", "unres", "revision", "ctx"}

\* yang_read_module from the return of yang_parse_mem on; yields [ret, nodes, mods, models]
yang_read_module(w, mdls, module, fault) ==
  IF fault \in LoadFaults THEN read_module_error(w, mdls, module)
  ELSE read_module_registered(w, Append(mdls, module), module)

\* ----------------------------------------------------------------------
\* Specification SpecLoad: module E is loaded into the repository, then
\* the deviations of the repository are switched
\* ----------------------------------------------------------------------
LoadVariants == {"full", "rival"}
SwitchModules == {ModC, ModD, ModE}

ModuleE2 == [ZeroMod EXCEPT !.name = "E", !.rev = "old", !.implemented = 1]

\* the load: its phase, the implement argument, the repository before the call, the
\* state before each of the last two lys_switch_deviations and the calls per module
LoadState(phase, implement, saved, hist, switches) ==
  [phase |-> phase, implement |-> implement, saved |-> saved, hist |-> hist,
   switches |-> switches]

InitLoad ==
  /\ nodes = [n \in NodeIds |-> ZeroNode]
  /\ \E variant \in LoadVariants :
       /\ cur = RepoCur(variant, 1)
       /\ mods = IF variant = "rival" THEN [RepoMods EXCEPT ![ModE2] = ModuleE2]
                 ELSE RepoMods
       /\ models = IF variant = "rival" THEN <<ModC, ModD, ModE2>> ELSE <<ModC, ModD>>
  /\ op = DevOp("init", "no", <<>>, "ok", NoSeen)
  /\ load = LoadState("await", 0, <<>>, <<>>, [m \in ModIds |-> 0])

\* 2239-2249: the module is calloc'ed; implement is forced only where no other
\* revision of E is implemented
LoadBegin ==
  /\ cur.phase = "idle"
  /\ load.phase = "await"
  /\ \E implement \in (IF ModE2 \in SeqSet(models) THEN {0} ELSE {0, 1}) :
       /\ mods' = [mods EXCEPT ![ModE].implemented = implement]
       /\ load' = [load EXCEPT !.phase = "parse", !.implement = implement,
                               !.saved = [nodes |-> nodes, mods |-> mods,
                                          models |-> models]]
       /\ op' = DevOp("begin", "no", implement, "ok", NoSeen)
  /\ UNCHANGED <<nodes, models, cur>>

LoadEnd(r, fault) ==
  /\ nodes' = r.nodes
  /\ mods' = r.mods
  /\ models' = r.models
  /\ cur' = DevCur("done", NoDev, 0, 0, FALSE)
  /\ op' = DevOp("load", "no", fault, r.ret, NoSeen)
  /\ load' = [load EXCEPT !.phase = IF r.ret = "ok" THEN "loaded" ELSE "failed"]

\* the statements are read: the rest of yang_read_module
LoadFinish ==
  /\ load.phase = "parse"
  /\ \/ cur.phase = "idle"
     \/ /\ cur.phase \in {"deviation", "deviate"}
        /\ TheDeviation(mods, cur.dev).deviate_size > 0
  /\ \E fault \in {"none", "unres", "revision", "ctx"} :
       LoadEnd(yang_read_module(World(nodes, mods), models, ModE, fault), fault)

\* a statement was rejected: yang_parse_mem fails
LoadAbort ==
  /\ load.phase = "parse"
  /\ cur.phase = "failed"
  /\ LoadEnd(yang_read_module(World(nodes, mods), models, ModE, "parse"), "parse")

LoadSwitched(r, module) ==
  /\ nodes' = r.nodes
  /\ mods' = r.mods
  /\ load' = [load EXCEPT
                !.hist = <<[module |-> module, nodes |-> nodes, mods |-> mods]>>
                         \o SubSeq(@, 1, IF @ = <<>> THEN 0 ELSE 1),
                !.switches[module] = @ + 1]
  /\ op' = DevOp("switch", "no", module, "ok", NoSeen)
  /\ UNCHANGED <<models, cur>>

Switches == load.switches[ModC] + load.switches[ModD] + load.switches[ModE]

\* lys_switch_deviations of a module of the repository; a run keeps to the module
\* of its first call
SwitchDeviations ==
  /\ load.phase = "loaded"
  /\ Switches < MaxSwitches
  /\ \E module \in SwitchModules :
       /\ load.switches[module] = Switches
       /\ LoadSwitched(lys_switch_deviations(World(nodes, mods), module), module)

NextLoad ==
  \/ DevReadNode
  \/ LoadBegin
  \/ DevReadDeviation
  \/ DevUnsupported
  \/ DevDeviate
  \/ DevUnits
  \/ DevDefault
  \/ DevConfig
  \/ DevMandatory
  \/ DevMinMax
  \/ DevMust
  \/ DevUnique
  \/ LoadFinish
  \/ LoadAbort
  \/ SwitchDeviations

SpecLoad == InitLoad /\ [][NextLoad]_vars

\* ----------------------------------------------------------------------
\* Specification SpecRepo: module E is loaded deviation by deviation, and
\* modules of the repository are set implemented
\* ----------------------------------------------------------------------
\* the other revision of E: not there, implemented, or there and not implemented
RevisionVariants == {"full", "rival", "spare"}
DeviateKinds == {"no", "add"}

InitRepo ==
  /\ nodes = [n \in NodeIds |-> ZeroNode]
  /\ \E variant \in RevisionVariants :
       /\ cur = RepoCur(variant, 1)
       /\ mods = IF variant = "full" THEN RepoMods
                 ELSE [RepoMods EXCEPT
                         ![ModE2] = [ModuleE2 EXCEPT
                                       !.implemented = IF variant = "rival" THEN 1 ELSE 0]]
       /\ models = IF variant = "full" THEN <<ModC, ModD>> ELSE <<ModC, ModD, ModE2>>
  /\ op = DevOp("init", "no", <<>>, "ok", NoSeen)
  /\ load = LoadState("repo", 0, <<>>, <<>>, [m \in ModIds |-> 0])

\* 2239-2249: the module is calloc'ed
RepoBegin ==
  /\ cur.phase = "idle"
  /\ load.phase = "repo"
  /\ \E implement \in (IF mods[ModE2].implemented # 0 THEN {0} ELSE {0, 1}) :
       /\ mods' = [mods EXCEPT ![ModE].implemented = implement]
       /\ load' = [load EXCEPT !.phase = "statements", !.implement = implement,
                               !.saved = [nodes |-> nodes, mods |-> mods,
                                          models |-> models]]
       /\ op' = DevOp("begin", "no", implement, "ok", NoSeen)
  /\ UNCHANGED <<nodes, models, cur>>

\* the deviate statement of the deviation r opened: not-supported or an empty deviate
deviation_deviate(nd, r, kind) ==
  IF r.ret # "ok" THEN DevResult("fail", nd, r.mods)
  ELSE IF kind = "no" THEN yang_read_deviate_unsupported(World(nd, r.mods), r.dev)
  ELSE yang_read_deviate(World(nd, r.mods), r.dev, kind)

\* a deviation statement with one deviate statement that has no property
deviation_statement(w, module, value, kind) ==
  deviation_deviate(w.nodes, yang_read_deviation(w, module, value), kind)

RepoStatement(r, value, kind) ==
  /\ nodes' = r.nodes
  /\ mods' = r.mods
  /\ load' = [load EXCEPT !.phase = IF r.ret = "ok" THEN "statements" ELSE "rejected"]
  /\ op' = DevOp("statement", kind, value, r.ret, [NoSeen EXCEPT !.mods = mods])
  /\ UNCHANGED <<models, cur>>

RepoDeviation ==
  /\ load.phase = "statements"
  /\ Len(mods[ModE].deviation) < MaxDeviations
  /\ \E value \in DevTargets, kind \in DeviateKinds :
       RepoStatement(deviation_statement(World(nodes, mods), ModE, value, kind), value, kind)

RepoEnd(r) ==
  /\ nodes' = r.nodes
  /\ mods' = r.mods
  /\ models' = r.models
  /\ op' = DevOp("load", "no", <<>>, r.ret, [NoSeen EXCEPT !.mods = mods])
  /\ load' = [load EXCEPT !.phase = IF r.ret = "ok" THEN "loaded" ELSE "failed"]
  /\ UNCHANGED cur

\* the rest of yang_read_module, after the last statement or after the rejected one
RepoFinish ==
  /\ load.phase \in {"statements", "rejected"}
  /\ RepoEnd(yang_read_module(World(nodes, mods), models, ModE,
                              IF load.phase = "rejected" THEN "parse" ELSE "none"))

RepoImplemented(r, module) ==
  /\ mods' = r.mods
  /\ op' = DevOp("implement", "no", module, r.ret, [NoSeen EXCEPT !.mods = mods])
  /\ UNCHANGED <<nodes, models, cur, load>>

\* lys_module_set_implement of a module of the repository
RepoImplement ==
  /\ cur.phase = "idle"
  /\ load.phase \in {"repo", "loaded", "failed"}
  /\ \E i \in 1..Len(models) :
       RepoImplemented(lys_module_set_implement(mods, models, models[i]), models[i])

NextRepo ==
  \/ DevReadNode
  \/ RepoBegin
  \/ RepoDeviation
  \/ RepoFinish
  \/ RepoImplement

SpecRepo == InitRepo /\ [][NextRepo]_vars

\* ----------------------------------------------------------------------
\* The deviate statements and the properties of the target (C6 - C9)
\* ----------------------------------------------------------------------
\* the node n has the property
HasProperty(n, prop) ==
  IF prop = "units" THEN n.units # NULLSTR
  ELSE IF prop = "default"
  THEN IF n.nodetype = "choice" THEN n.cdflt # NULL ELSE n.dflt # NULLSTR
  ELSE IF prop = "config" THEN n.flags \cap CONFIG_MASK # {}
  ELSE IF prop = "mandatory" THEN n.flags \cap MAND_MASK # {}
  ELSE IF prop = "min" THEN n.min # 0
  ELSE IF prop = "max" THEN n.max # 0
  ELSE IF prop = "must" THEN n.must # <<>>
  ELSE n.unique # <<>>

PropertyOf(n, prop) ==
  IF prop = "units" THEN <<n.units>>
  ELSE IF prop = "default" THEN <<n.dflt, n.cdflt>>
  ELSE IF prop = "config" THEN <<n.flags \cap CONFIG_MASK>>
  ELSE IF prop = "mandatory" THEN <<n.flags \cap MAND_MASK>>
  ELSE IF prop = "min" THEN <<n.min>>
  ELSE IF prop = "max" THEN <<n.max>>
  ELSE IF prop = "must" THEN n.must
  ELSE n.unique

\* the last step was the statement of one of the properties in a deviate of the kind
StepOf(kind, props) == op.mod = kind /\ op.name \in props

StepTarget == nodes[op.seen.target]

\* the step failed and left the target's value of the property as it was
FailedUnchanged ==
  /\ op.ret = "fail"
  /\ PropertyOf(StepTarget, op.name) = PropertyOf(op.seen.node, op.name)

\* C6 (as stated): a deviate add of units, default, config, mandatory,
\* min-elements or max-elements fails when the target already has the
\* property, and the target's value of the property stays unchanged.
C6_AddFailsOnPresent ==
  (/\ StepOf("add", {"units", "default", "config", "mandatory", "min", "max"})
   /\ HasProperty(op.seen.node, op.name))
  => FailedUnchanged

\* C6 (amended): a deviate add of units, default, mandatory, min-elements or
\* max-elements fails when the target already has the property (for
\* min/max: a value other than 0) and leaves the value unchanged; a deviate
\* add of config is not checked against the target: unless the deviate
\* already has a config statement it succeeds and overwrites the target's config.
C6_AddFailsOnPresentButConfig ==
  /\ (/\ StepOf("add", {"units", "default", "mandatory", "min", "max"})
      /\ HasProperty(op.seen.node, op.name))
     => FailedUnchanged
  /\ (/\ StepOf("add", {"config"})
      /\ op.seen.deviate.flags \cap CONFIG_MASK = {})
     => (op.ret = "ok" /\ StepTarget.flags \cap CONFIG_MASK = {op.arg})

\* a rejected add of mandatory to a node that has it; an accepted add of config to one that has it
C6_Witness ==
  \/ /\ StepOf("add", {"mandatory"})
     /\ HasProperty(op.seen.node, "mandatory")
     /\ op.ret = "fail"
  \/ /\ StepOf("add", {"config"})
     /\ HasProperty(op.seen.node, "config")
     /\ op.seen.node.flags \cap CONFIG_MASK # {op.arg}
     /\ op.ret = "ok"

\* C7 (as stated): a deviate replace of units, default, config, mandatory,
\* min-elements or max-elements fails when the target does not have the
\* property, and the target stays unchanged.
C7_ReplaceFailsOnAbsent ==
  (/\ StepOf("rpl", {"units", "default", "config", "mandatory", "min", "max"})
   /\ ~HasProperty(op.seen.node, op.name))
  => (op.ret = "fail" /\ StepTarget = op.seen.node)

\* C7 (amended): a deviate replace of units, default or mandatory fails when
\* the target does not have the property and leaves the target unchanged; a
\* deviate replace of config, min-elements or max-elements is not checked
\* against the target: on a target that admits the property it sets the value
\* (config unless the deviate already has a config statement).
C7_ReplaceFailsOnAbsentUnitsDefaultMandatory ==
  /\ (/\ StepOf("rpl", {"units", "default", "mandatory"})
      /\ ~HasProperty(op.seen.node, op.name))
     => (op.ret = "fail" /\ StepTarget = op.seen.node)
  /\ (/\ StepOf("rpl", {"min", "max"})
      /\ op.seen.node.nodetype \in {"list", "leaflist"})
     => (op.ret = "ok" /\ PropertyOf(StepTarget, op.name) = <<op.arg>>)
  /\ (/\ StepOf("rpl", {"config"})
      /\ op.seen.deviate.flags \cap CONFIG_MASK = {})
     => (op.ret = "ok" /\ StepTarget.flags \cap CONFIG_MASK = {op.arg})

\* a rejected replace of absent units; an accepted replace of an absent min-elements
C7_Witness ==
  \/ /\ StepOf("rpl", {"units"})
     /\ op.seen.node.nodetype = "leaf"
     /\ ~HasProperty(op.seen.node, "units")
     /\ op.ret = "fail"
  \/ /\ StepOf("rpl", {"min"})
     /\ ~HasProperty(op.seen.node, "min")
     /\ op.arg # 0
     /\ op.ret = "ok"

\* the value a delete names is what the node has
DeleteMatches(nd, n, prop, value) ==
  IF prop = "units" THEN n.units = value
  ELSE IF prop = "default"
  THEN IF n.nodetype = "choice" THEN n.cdflt # NULL /\ nd[n.cdflt].name = value
       ELSE n.nodetype = "leaf" /\ n.dflt = value
  ELSE IF prop = "must" THEN \E i \in 1..Len(n.must) : n.must[i].expr = value
  ELSE \E i \in 1..Len(n.unique) : n.unique[i] = value

\* C8: a deviate delete of units, default, must or unique succeeds only if
\* the value it names equals the target's units, leaf default, default case
\* of the choice, one of its must expressions or one of its unique statements
\* (same tokens, same order); when nothing matches the step fails, and a
\* failed step leaves the property (the must and unique arrays included) unchanged.
C8_DeleteNeedsEqualValue ==
  StepOf("del", {"units", "default", "must", "unique"})
  => /\ op.ret = "ok" => DeleteMatches(nodes, op.seen.node, op.name, op.arg)
     /\ ~DeleteMatches(nodes, op.seen.node, op.name, op.arg) => op.ret = "fail"
     /\ op.ret = "fail" => PropertyOf(StepTarget, op.name) = PropertyOf(op.seen.node, op.name)

\* a delete of a unique statement with the list's tokens in another order is rejected
C8_Witness ==
  /\ StepOf("del", {"unique"})
  /\ op.ret = "fail"
  /\ \E i \in 1..Len(op.seen.node.unique) :
       /\ SeqSet(op.seen.node.unique[i]) = SeqSet(op.arg)
       /\ op.seen.node.unique[i] # op.arg
  /\ StepTarget.unique = op.seen.node.unique

\* C9: not-supported is accepted only when the deviation has no deviate yet
\* and the target is no key leaf of its parent list; once it is accepted
\* every later deviate of the deviation fails; a rejected not-supported
\* changes neither the target, which stays linked where it was, nor the
\* original node of the deviation, which is not the target unless an
\* accepted not-supported stored it before.
C9_NotSupportedAlone ==
  /\ (op.name = "unsupported" /\ op.ret = "ok")
     => (op.seen.deviate_size = 0 /\ ~op.seen.key)
  /\ (op.name \in {"unsupported", "deviate"} /\ op.seen.deviate_size > 0
      /\ TheDeviation(mods, cur.dev).deviate[1].mod = "no")
     => op.ret = "fail"
  /\ (op.name = "unsupported" /\ op.ret = "fail")
     => /\ StepTarget = op.seen.node
        /\ (op.seen.target \in Linked(nodes, mods)) = op.seen.linked
        /\ TheDeviation(mods, cur.dev).orig_node = op.seen.orig_node
        /\ (op.seen.deviate_size = 0 \/ TheDeviation(mods, cur.dev).deviate[1].mod # "no")
           => /\ op.seen.target \in Linked(nodes, mods)
              /\ TheDeviation(mods, cur.dev).orig_node # op.seen.target

\* not-supported of a key leaf is rejected
C9_Witness ==
  /\ op.name = "unsupported"
  /\ op.ret = "fail"
  /\ op.seen.key
  /\ op.seen.target \in Linked(nodes, mods)
  /\ TheDeviation(mods, cur.dev).orig_node = NULL

\* the module the resolved target of the last deviation statement belongs to
DeviationTargetModule ==
  lys_node_module(World(nodes, op.seen.mods), op.seen.target)

\* the deviated flag and the import table of every module are what they were
DeviationLeftModules ==
  \A m \in ModIds : /\ mods[m].deviated = op.seen.mods[m].deviated
                    /\ mods[m].imp = op.seen.mods[m].imp

\* C10: yang_read_deviation fails whenever the resolved target belongs to the
\* main module of the deviating (sub)module, and on that failure, as on an
\* unresolvable target, no module's deviated flag and no module's import
\* table has been modified.
C10_OwnModuleRejected ==
  op.name = "deviation"
  => /\ (/\ op.seen.target # NULL
         /\ DeviationTargetModule = lys_main_module(mods, op.arg[1]))
        => op.ret = "fail"
     /\ op.ret = "fail" => DeviationLeftModules

\* ----------------------------------------------------------------------
\* Loads that fail, and the switch of deviations (C1, C4, C5)
\* ----------------------------------------------------------------------
\* the data tree from n on, without the addresses of its nodes
RECURSIVE DataShape(_, _, _)
DataShape(nd, n, fuel) ==
  IF n = NULL \/ fuel = 0 THEN <<>>
  ELSE <<[node |-> [nd[n] EXCEPT !.parent = NULL, !.prev = NULL, !.next = NULL,
                                 !.child = NULL,
                                 !.cdflt = IF @ = NULL THEN NULLSTR ELSE nd[@].name,
                                 !.keys = [i \in 1..Len(@) |-> nd[@[i]].name]],
          children |-> DataShape(nd, nd[n].child, fuel - 1)]>>
       \o DataShape(nd, nd[n].next, fuel - 1)

\* the module m is what it was before the load
ModuleRestored(m) ==
  /\ mods[m].implemented = load.saved.mods[m].implemented
  /\ mods[m].deviated = load.saved.mods[m].deviated
  /\ mods[m].imp = load.saved.mods[m].imp
  /\ DataShape(nodes, mods[m].data, Fuel)
       = DataShape(load.saved.nodes, load.saved.mods[m].data, Fuel)

\* C1: a load that fails at any step returns a null handle and leaves the
\* repository as it was before the call: the same model list and, for every
\* other module, the same implemented flag, deviated flag, import table and
\* data tree.
C1_FailedLoadRestores ==
  load.phase = "failed"
  => /\ op.ret = "fail"
     /\ models = load.saved.models
     /\ SiblingsWellFormed(nodes, mods)
     /\ \A m \in ModIds \ {ModE} : ModuleRestored(m)

\* scenario S5: E, with the one deviation of /C:c/l by not-supported, is loaded
S5 ==
  /\ load.phase = "loaded"
  /\ Len(mods[ModE].deviation) = 1
  /\ mods[ModE].deviation[1].target_name = [mod |-> "C", path |-> <<"c", "l">>]
  /\ mods[ModE].deviation[1].deviate[1].mod = "no"

\* container c of module C has the child l
ChildL ==
  \E c \in NodeIds, l \in NodeIds :
    /\ c = resolve_augment_schema_nodeid(World(nodes, mods), <<"c">>, ModC)
    /\ l \in SeqSet(Chain(nodes, nodes[c].child, Fuel))
    /\ nodes[l].name = "l"
    /\ nodes[l].parent = c

\* C4 (as stated): in scenario S5 container c has no child l after the load,
\* has it again after lys_switch_deviations(E), loses it with one more call,
\* and so on alternately.
C4_SwitchDeviatingModule ==
  (S5 /\ load.switches[ModC] = 0 /\ load.switches[ModD] = 0)
  => (ChildL <=> load.switches[ModE] % 2 = 1)

\* C4 (amended): in scenario S5 container c has no child l after the load; the
\* deviations are switched by lys_switch_deviations of the deviated module C,
\* which walks the imports of its argument that a deviation added: c has the
\* child l after an odd number of calls on C and has none after an even
\* number; calls on E, which holds the deviation, change nothing.
C4_SwitchDeviatedModule ==
  S5 => (ChildL <=> load.switches[ModC] % 2 = 1)

\* l was restored and removed again, and restored once more
C4_Witness ==
  /\ S5
  /\ op.name = "switch"
  /\ load.switches[ModC] = MaxSwitches
  /\ ChildL = (MaxSwitches % 2 = 1)
  /\ mods[ModC].deviated = (IF MaxSwitches % 2 = 1 THEN 0 ELSE 1)

\* the schema of the repository nd1, md1 is that of nd2, md2: the same nodes
\* linked with the same fields, the same original nodes, the same flags
SameSchema(nd1, md1, nd2, md2) ==
  /\ Linked(nd1, md1) = Linked(nd2, md2)
  /\ \A n \in Linked(nd2, md2) : nd1[n] = nd2[n]
  /\ \A m \in ModIds :
       /\ md1[m].data = md2[m].data
       /\ md1[m].deviated = md2[m].deviated
       /\ md1[m].deviation = md2[m].deviation

\* C5: lys_switch_deviations called twice on a module returns the schema
\* tree, the original node of every deviation and the deviated flag of the
\* module to what they were before the first call, whatever the kind of the
\* deviations and wherever their targets sit among their siblings.
C5_SwitchTwiceIsIdentity ==
  (/\ op.name = "switch"
   /\ Len(load.hist) = 2
   /\ load.hist[1].module = load.hist[2].module)
  => SameSchema(nodes, mods, load.hist[2].nodes, load.hist[2].mods)

\* ----------------------------------------------------------------------
\* The modules a loaded module deviates (C11) and the implemented flag (C14)
\* ----------------------------------------------------------------------
\* the module that owns the target of deviation i of E
DeviatedModule(i) ==
  lys_get_import_module(mods, ModE, mods[ModE].deviation[i].target_name.mod)

\* the entries of the import table of m that name module d
ImportsOf(m, d) == {j \in 1..Len(mods[m].imp) : mods[m].imp[j].module = d}

\* C11: after a module with deviations has loaded, every module that owns a
\* deviation target is deviated and holds exactly one import entry of the
\* deviating module, flagged external = 2 (via deviation), no module is twice
\* in that import table, and the deviating module is implemented.
C11_DeviatedModulesImport ==
  (load.phase = "loaded" /\ mods[ModE].deviation # <<>>)
  => /\ mods[ModE].implemented = 1
     /\ \A i \in 1..Len(mods[ModE].deviation) :
          /\ mods[DeviatedModule(i)].deviated = 1
          /\ Cardinality(ImportsOf(DeviatedModule(i), ModE)) = 1
          /\ \A j \in ImportsOf(DeviatedModule(i), ModE) :
               mods[DeviatedModule(i)].imp[j].external = 2
          /\ \A d \in ModIds : Cardinality(ImportsOf(DeviatedModule(i), d)) <= 1

\* E is loaded with two deviations of nodes of C
C11_Witness ==
  /\ load.phase = "loaded"
  /\ op.name = "load"
  /\ Len(mods[ModE].deviation) = MaxDeviations
  /\ \A i \in 1..Len(mods[ModE].deviation) : DeviatedModule(i) = ModC
  /\ mods[ModC].deviated = 1
  /\ Cardinality(ImportsOf(ModC, ModE)) = 1

\* ----------------------------------------------------------------------
\* C12: mandatory and default
\* ----------------------------------------------------------------------
\* the leaf or choice n is mandatory and has a default
MandatoryWithDefault(nd, n) ==
  /\ nd[n].nodetype \in {"leaf", "choice"}
  /\ "MAND_TRUE" \in nd[n].flags
  /\ (nd[n].dflt # NULLSTR \/ nd[n].cdflt # NULL)

\* C12: no leaf and no choice that started without mandatory true together
\* with a default has both after any sequence of accepted deviate statements
\* of default and mandatory.
C12_MandatoryExcludesDefault ==
  \A n \in UsedNodes(nodes) : ~MandatoryWithDefault(nodes, n)

\* ----------------------------------------------------------------------
\* C13: config inheritance
\* ----------------------------------------------------------------------
RECURSIVE ConfigFalseAbove(_, _, _)
\* some ancestor of n has config false
ConfigFalseAbove(nd, n, fuel) ==
  IF fuel = 0 \/ nd[n].parent = NULL THEN FALSE
  ELSE \/ "CONFIG_R" \in nd[nd[n].parent].flags
       \/ ConfigFalseAbove(nd, nd[n].parent, fuel - 1)

\* C13: no schema node with config true has an ancestor with config false;
\* a deviate of config that would break this is rejected.
C13_ConfigInherits ==
  \A n \in UsedNodes(nodes) :
    "CONFIG_W" \in nodes[n].flags => ~ConfigFalseAbove(nodes, n, Fuel)

\* ----------------------------------------------------------------------
\* C14: one implemented revision per name
\* ----------------------------------------------------------------------
\* the modules of the repository md, mdls that carry the name of module, are
\* implemented and are not module itself
ImplementedRevisions(md, mdls, module) ==
  {i \in 1..Len(mdls) : /\ mdls[i] # module
                        /\ md[mdls[i]].name = md[module].name
                        /\ md[mdls[i]].implemented # 0}

\* C14: at most one module of a name in the repository is implemented; a
\* lys_module_set_implement for a module whose name has another implemented
\* revision fails and changes no flag, and one for an implemented module
\* succeeds and changes nothing.
C14_OneImplementedRevision ==
  /\ \A i \in 1..Len(models) :
       mods[models[i]].implemented # 0 =>
         ImplementedRevisions(mods, models, models[i]) = {}
  /\ op.name = "implement" =>
       /\ (/\ op.seen.mods[op.arg].implemented = 0
           /\ ImplementedRevisions(op.seen.mods, models, op.arg) # {})
            => (op.ret = "fail" /\ mods = op.seen.mods)
       /\ op.seen.mods[op.arg].implemented # 0
            => (op.ret = "ok" /\ mods = op.seen.mods)

\* E was loaded beside its implemented older revision, and the call for E failed
C14_Witness ==
  /\ op.name = "implement"
  /\ op.arg = ModE
  /\ op.ret = "fail"
  /\ load.phase = "loaded"
  /\ mods[ModE2].implemented # 0
  /\ mods[ModE].implemented = 0

\* ----------------------------------------------------------------------
\* Features (lys_features_change 5177-5232, lys_features_state 5246-5282)
\* ----------------------------------------------------------------------
\* module B includes the submodule Bs and imports the module A
FeatIds == [B |-> 1, Bs |-> 2, A |-> 3]
FeatModules == {FeatIds.B, FeatIds.Bs, FeatIds.A}

\* struct lys_feature *: the module of the definition and the index in its
\* features array
FeatRef(module, index) == [module |-> module, index |-> index]

\* the features in an order no if-feature contradicts: a feature refers to
\* features before it only (w of A, x of B, u of Bs, y of B)
FeatOrder ==
  <<FeatRef(FeatIds.A, 1), FeatRef(FeatIds.B, 1), FeatRef(FeatIds.Bs, 1),
    FeatRef(FeatIds.B, 2)>>
FeatName == <<"w", "x", "u", "y">>

\* the if-feature references of the feature at position p of FeatOrder: the
\* features at the positions of S
FeatReferences(S) ==
  SelectSeq(<<FeatOrder[1], FeatOrder[2], FeatOrder[3], FeatOrder[4]>>,
            LAMBDA f : \E q \in S : FeatOrder[q] = f)

\* the choices of if-feature statements of the features
FeatGraphs ==
  {g \in [1..4 -> SUBSET (1..4)] :
     \A p \in 1..4 : /\ \A q \in g[p] : q < p
                     /\ Cardinality(g[p]) <= MaxIfFeatures}

\* struct lys_feature
Feature(g, p) ==
  [name |-> FeatName[p], flags |-> {}, features |-> FeatReferences(g[p])]

\* the three modules with the if-feature statements g, every feature disabled
FeatMods(g) ==
  [m \in FeatModules |->
     IF m = FeatIds.B
     THEN [name |-> "B", features |-> <<Feature(g, 2), Feature(g, 4)>>,
           inc |-> <<FeatIds.Bs>>]
     ELSE IF m = FeatIds.Bs
     THEN [name |-> "Bs", features |-> <<Feature(g, 3)>>, inc |-> <<>>]
     ELSE [name |-> "A", features |-> <<Feature(g, 1)>>, inc |-> <<>>]]

\* a bound of the depth of the recursion of lys_features_change: the stack
FeatStack == 2 * Len(FeatName)

FeatResult(ret, md) == [ret |-> ret, mods |-> md]

\* 5198-5199, 5206-5207, 5218-5221: flags |= LYS_FENABLED, flags &= ~LYS_FENABLED
feature_clear_module(md, module, i, o) ==
  [md EXCEPT ![module].features =
     [k \in 1..Len(md[module].features) |->
        [md[module].features[k] EXCEPT
           !.flags = IF o = 1 THEN (IF k = i THEN @ \cup {"FENABLED"} ELSE @) ELSE {}]]]

feature_flag(md, module, i, o) ==
  [md EXCEPT ![module].features[i].flags =
     IF o = 1 THEN @ \cup {"FENABLED"} ELSE @ \ {"FENABLED"}]

RECURSIVE lys_features_change(_, _, _, _, _)
RECURSIVE change_referenced(_, _, _, _, _, _)
RECURSIVE change_module(_, _, _, _, _, _)
RECURSIVE change_submodules(_, _, _, _, _, _)

\* 5201-5204: the next referenced feature, unless the stack is exhausted
referenced_next(r, module, i, k, o, stack) ==
  IF r.ret = "overflow" THEN r
  ELSE change_referenced(r.mods, module, i, k + 1, o, stack)

\* 5200-5204: enable referenced features (recursion), from the k-th on; the
\* value of the recursive call is not looked at
change_referenced(md, module, i, k, o, stack) ==
  IF k > Len(md[module].features[i].features) THEN FeatResult("ok", md)
  ELSE referenced_next(
         lys_features_change(
           md, md[module].features[i].features[k].module,
           md[md[module].features[i].features[k].module]
             .features[md[module].features[i].features[k].index].name,
           o, stack - 1),
         module, i, k, o, stack)

\* 5208-5210: return EXIT_SUCCESS unless all
module_matched(r, module, name, o, i, stack) ==
  IF r.ret = "overflow" THEN r
  ELSE IF name # "*" THEN FeatResult("ok", r.mods)
  ELSE change_module(r.mods, module, name, o, i + 1, stack)

\* 5196-5212: the features of the module itself, from the i-th on; "next"
\* stands for leaving the loop without a return
change_module(md, module, name, o, i, stack) ==
  IF i > Len(md[module].features) THEN FeatResult("next", md)
  ELSE IF name = "*" \/ md[module].features[i].name = name
  THEN IF o = 1
       THEN module_matched(
              change_referenced(feature_flag(md, module, i, o), module, i, 1, o, stack),
              module, name, o, i, stack)
       ELSE module_matched(FeatResult("ok", feature_flag(md, module, i, o)),
                           module, name, o, i, stack)
  ELSE change_module(md, module, name, o, i + 1, stack)

\* 5215-5231: the features of the submodules, from the i-th of the j-th on
change_submodules(md, module, name, o, j, i) ==
  IF j > Len(md[module].inc)
  THEN FeatResult(IF name = "*" THEN "ok" ELSE "fail", md)
  ELSE IF i > Len(md[md[module].inc[j]].features)
  THEN change_submodules(md, module, name, o, j + 1, 1)
  ELSE IF name = "*" \/ md[md[module].inc[j]].features[i].name = name
  THEN IF name # "*"
       THEN FeatResult("ok", feature_flag(md, md[module].inc[j], i, o))
       ELSE change_submodules(feature_flag(md, md[module].inc[j], i, o),
                              module, name, o, j, i + 1)
  ELSE change_submodules(md, module, name, o, j, i + 1)

\* 5214: the submodules are looked at when the first loop did not return
change_inc(r, module, name, o) ==
  IF r.ret # "next" THEN r
  ELSE change_submodules(r.mods, module, name, o, 1, 1)

\* 5180-5232; o: 1 - enable, 0 - disable.  A recursion deeper than the stack
\* ends the program ("overflow").
lys_features_change(md, module, name, o, stack) ==
  IF stack = 0 THEN FeatResult("overflow", md)
  ELSE IF module = NULL \/ name = NULLSTR \/ name = ""
  THEN FeatResult("fail", md)
  ELSE change_inc(change_module(md, module, name, o, 1, stack), module, name, o)

\* 5234-5238
lys_features_enable(md, module, feature) ==
  lys_features_change(md, module, feature, 1, FeatStack)

\* 5240-5244
lys_features_disable(md, module, feature) ==
  lys_features_change(md, module, feature, 0, FeatStack)

\* the positions of the features called feature in the features array fs
FeatureAt(fs, feature) == {i \in 1..Len(fs) : fs[i].name = feature}

\* the first of the positions I
FirstOf(I) == CHOOSE i \in I : \A k \in I : i <= k

\* 5268-5278: the submodules, from the j-th on
RECURSIVE state_submodules(_, _, _, _)
state_submodules(md, module, feature, j) ==
  IF j > Len(md[module].inc) THEN -1
  ELSE IF FeatureAt(md[md[module].inc[j]].features, feature) # {}
  THEN IF "FENABLED" \in md[md[module].inc[j]]
                           .features[FirstOf(FeatureAt(md[md[module].inc[j]].features,
                                                       feature))].flags
       THEN 1 ELSE 0
  ELSE state_submodules(md, module, feature, j + 1)

\* 5246-5282
lys_features_state(md, module, feature) ==
  IF module = NULL \/ feature = NULLSTR THEN -1
  ELSE IF FeatureAt(md[module].features, feature) # {}
  THEN IF "FENABLED" \in md[module]
                           .features[FirstOf(FeatureAt(md[module].features, feature))].flags
       THEN 1 ELSE 0
  ELSE state_submodules(md, module, feature, 1)

\* ----------------------------------------------------------------------
\* Specification of the features: toggles and reads of the features of B, of
\* its submodule and of the imported module
\* ----------------------------------------------------------------------
\* the names the calls are made with
FeatArgs == {"w", "x", "u", "y", "*", "nope", ""}
\* the modules the calls are made on
FeatCalled == {FeatIds.B, FeatIds.A}

FeatOp(name, module, arg, ret, seen) ==
  [name |-> name, module |-> module, arg |-> arg, ret |-> ret, seen |-> seen]

InitFeat ==
  /\ nodes = [n \in NodeIds |-> ZeroNode]
  /\ \E g \in FeatGraphs : mods = FeatMods(g)
  /\ models = <<FeatIds.A, FeatIds.B>>
  /\ cur = NoCur
  /\ op = FeatOp("init", NULL, NULLSTR, "ok", <<>>)
  /\ load = NoLoad

FeatChanged(r, name, module, arg) ==
  /\ mods' = r.mods
  /\ op' = FeatOp(name, module, arg, r.ret, mods)
  /\ UNCHANGED <<nodes, models, cur, load>>

FeatEnable ==
  \E module \in FeatCalled, arg \in FeatArgs :
    FeatChanged(lys_features_enable(mods, module, arg), "enable", module, arg)

FeatDisable ==
  \E module \in FeatCalled, arg \in FeatArgs :
    FeatChanged(lys_features_disable(mods, module, arg), "disable", module, arg)

FeatState ==
  \E module \in FeatCalled, arg \in FeatArgs :
    /\ op' = FeatOp("state", module, arg, lys_features_state(mods, module, arg), mods)
    /\ UNCHANGED <<nodes, mods, models, cur, load>>

NextFeat == FeatEnable \/ FeatDisable \/ FeatState

SpecFeat == InitFeat /\ [][NextFeat]_vars

\* ----------------------------------------------------------------------
\* C15, C16: feature toggles
\* ----------------------------------------------------------------------
\* the features of module and of its submodules that arg names
FeatNamed(md, module, arg) ==
  {f \in SeqSet(FeatOrder) :
     /\ f.module = module \/ f.module \in SeqSet(md[module].inc)
     /\ arg = "*" \/ md[f.module].features[f.index].name = arg}

\* the features of F and the features they refer to
FeatReferenced(md, F) ==
  F \cup UNION {SeqSet(md[f.module].features[f.index].features) : f \in F}

RECURSIVE FeatReachable(_, _, _)
\* the features reachable from F through if-feature references
FeatReachable(md, F, fuel) ==
  IF fuel = 0 THEN F ELSE FeatReachable(md, FeatReferenced(md, F), fuel - 1)

FeatEnabled(md, f) == "FENABLED" \in md[f.module].features[f.index].flags

\* C15: a lys_features_enable that returns success leaves the named feature
\* (every feature of the module and its submodules for "*") and every feature
\* reachable from it through if-feature references enabled, and every call
\* of lys_features_enable returns.
C15_EnableReachesReferenced ==
  /\ op.name = "enable" => op.ret # "overflow"
  /\ (op.name = "enable" /\ op.ret = "ok") =>
       \A f \in FeatReachable(mods, FeatNamed(mods, op.module, op.arg), Len(FeatOrder)) :
         FeatEnabled(mods, f)

\* the flags of the features of md
FeatFlags(md) ==
  [f \in SeqSet(FeatOrder) |-> md[f.module].features[f.index].flags]

RevDates == {<<2015, 12, 31>>, <<2016, 1, 1>>, <<2016, 1, 2>>}

RECURSIVE strcmp_from(_, _, _)
strcmp_from(s1, s2, i) ==
  IF i > Len(s1) \/ i > Len(s2)
  THEN (IF Len(s1) < Len(s2) THEN -1 ELSE IF Len(s1) > Len(s2) THEN 1 ELSE 0)
  ELSE IF s1[i] < s2[i] THEN -1
  ELSE IF s1[i] > s2[i] THEN 1
  ELSE strcmp_from(s1, s2, i + 1)

strcmp(s1, s2) == strcmp_from(s1, s2, 1)

\* a calloc'ed struct lys_revision with the date
Revision(date, dsc, ref) == [date |-> date, dsc |-> dsc, ref |-> ref]

\* the string is stored whatever the target holds
yang_check_string_store(target, value) ==
  [ret |-> IF target # NULLSTR THEN 1 ELSE 0,
   err |-> IF target # NULLSTR THEN "LYE_TOOMANY" ELSE "none", target |-> value]

\* 21-32: the string is stored unless the target holds one
yang_check_string(target, value) ==
  IF target # NULLSTR THEN [ret |-> 1, err |-> "LYE_TOOMANY", target |-> target]
  ELSE [ret |-> 0, err |-> "none", target |-> value]

\* every revision is appended, none moved
yang_read_revision_append(rev, value) ==
  [rev |-> Append(rev, Revision(value, NULLSTR, NULLSTR)), retval |-> Len(rev) + 1]

\* 196-218: rev is module->rev[0 .. rev_size-1]; retval is the index, from 1,
\* of the entry returned
yang_read_revision(rev, value) ==
  IF Len(rev) # 0 /\ strcmp(rev[1].date, value) < 0
  THEN [rev |-> Append([rev EXCEPT ![1] = Revision(value, NULLSTR, NULLSTR)],
                       Revision(rev[1].date, rev[1].dsc, rev[1].ref)),
        retval |-> 1]
  ELSE [rev |-> Append(rev, Revision(value, NULLSTR, NULLSTR)),
        retval |-> Len(rev) + 1]

\* 154-169 with where = "revision": node is the entry node of rev
yang_read_description(rev, node, value) ==
  [ret |-> yang_check_string(rev[node].dsc, value).ret,
   rev |-> [rev EXCEPT ![node].dsc = yang_check_string(@, value).target]]

\* 171-186 with where = "revision"
yang_read_reference(rev, node, value) ==
  [ret |-> yang_check_string(rev[node].ref, value).ret,
   rev |-> [rev EXCEPT ![node].ref = yang_check_string(@, value).target]]

\* ----------------------------------------------------------------------
\* Specification of the revisions: the revision statements of a module, each
\* with its description and reference, in any order of dates
\* ----------------------------------------------------------------------
RevTexts == {"t1"}

\* the parser's position: the array, the entry of the statement being read
RevCur(rev, retval) == [phase |-> "revision", rev |-> rev, retval |-> retval]

\* read: the statements as the module text has them, in the order read
RevOp(name, arg, ret, read) == [name |-> name, arg |-> arg, ret |-> ret, read |-> read]

InitRev ==
  /\ nodes = [n \in NodeIds |-> ZeroNode]
  /\ mods = <<>>
  /\ models = <<>>
  /\ cur = RevCur(<<>>, NULL)
  /\ op = RevOp("init", <<>>, 0, <<>>)
  /\ load = NoLoad

RevStep(r, value) ==
  /\ cur' = RevCur(r.rev, r.retval)
  /\ op' = RevOp("revision", value, 0, Append(op.read, Revision(value, NULLSTR, NULLSTR)))
  /\ UNCHANGED <<nodes, mods, models, load>>

RevRead ==
  /\ Len(cur.rev) < MaxRevisions
  /\ \E value \in RevDates : RevStep(yang_read_revision(cur.rev, value), value)

\* the text of the statement is that of the first occurrence
RevText(r, name, value, text) ==
  /\ cur' = RevCur(r.rev, cur.retval)
  /\ op' = RevOp(name, value, r.ret,
                 [op.read EXCEPT ![Len(op.read)] = IF r.ret = 0 THEN text ELSE @])
  /\ UNCHANGED <<nodes, mods, models, load>>

RevDescription ==
  /\ cur.retval # NULL
  /\ \E value \in RevTexts :
       RevText(yang_read_description(cur.rev, cur.retval, value), "description", value,
               [op.read[Len(op.read)] EXCEPT !.dsc = value])

RevReference ==
  /\ cur.retval # NULL
  /\ \E value \in RevTexts :
       RevText(yang_read_reference(cur.rev, cur.retval, value), "reference", value,
               [op.read[Len(op.read)] EXCEPT !.ref = value])

NextRev == RevRead \/ RevDescription \/ RevReference

SpecRev == InitRev /\ [][NextRev]_vars

\* ----------------------------------------------------------------------
\* C17: the revision array
\* ----------------------------------------------------------------------
\* the number of entries of the sequence s equal to e
RevCount(s, e) == Cardinality({i \in 1..Len(s) : s[i] = e})

\* C17: after any sequence of yang_read_revision calls the first entry of
\* the array holds the greatest date, the array holds one entry per call with
\* the dates read, every entry holds the description and reference read for
\* its date, and the entry returned holds the date just read.
C17_FirstRevisionIsLatest ==
  /\ \A i \in 1..Len(cur.rev) : strcmp(cur.rev[1].date, cur.rev[i].date) >= 0
  /\ Len(cur.rev) = Len(op.read)
  /\ \A i \in 1..Len(cur.rev) :
       RevCount(cur.rev, cur.rev[i]) = RevCount(op.read, cur.rev[i])
  /\ cur.retval # NULL =>
       cur.rev[cur.retval] = op.read[Len(op.read)]

\* a later date was read after an earlier one with a description and a
\* reference: the earlier entry moved to the end
C17_Witness ==
  /\ Len(cur.rev) = MaxRevisions
  /\ op.name = "revision"
  /\ cur.retval = 1
  /\ cur.rev[Len(cur.rev)].dsc # NULLSTR
  /\ cur.rev[Len(cur.rev)].ref # NULLSTR
  /\ strcmp(cur.rev[1].date, cur.rev[Len(cur.rev)].date) > 0

\* ----------------------------------------------------------------------
\* Statements that appear at most once (yang_check_string 21-32,
\* yang_check_flags 290-304, yang_read_presence 405-416, yang_read_when
\* 418-508, yang_read_length 1074-1104, yang_read_range 1120-1143,
\* yang_read_fraction 1145-1175)
\* ----------------------------------------------------------------------
\* the statements stored through yang_check_string, each in a field of its own
StringTargets ==
  {"namespace", "prefix", "organization", "contact", "description", "reference",
   "units", "default", "error-message", "error-app-tag"}

\* the statements stored through yang_check_flags: the bits of the mask and
\* the values of the statement, as sets of bit positions of the uint16_t; the
\* fourth has its bit in the high byte
FlagStatements ==
  {[what |-> "config", mask |-> {0, 1}, values |-> {{0}, {1}}],
   [what |-> "status", mask |-> {2, 3, 4}, values |-> {{2}, {3}, {4}}],
   [what |-> "mandatory", mask |-> {5, 6}, values |-> {{5}, {6}}],
   [what |-> "ordered-by", mask |-> {8}, values |-> {{8}}]}

\* the bits of a uint8_t
ShortBits == 0..7

\* 405-416
yang_read_presence(presence, value) ==
  IF presence # NULLSTR THEN [ret |-> 1, err |-> "LYE_TOOMANY", presence |-> presence]
  ELSE [ret |-> 0, err |-> "none", presence |-> value]

\* 418-508: syntax is the value of lyxp_syntax_check, which reports its own
\* error; a return of NULL is ret 1
yang_read_when(when, value, syntax) ==
  IF syntax # 0 THEN [ret |-> 1, err |-> "LYE_XPATH", when |-> when]
  ELSE IF when # NULLSTR THEN [ret |-> 1, err |-> "LYE_TOOMANY", when |-> when]
  ELSE [ret |-> 0, err |-> "none", when |-> value]

\* 290-304: with shortint the low byte alone is written
yang_check_flags(flags, mask, value, shortint) ==
  IF flags \cap mask # {} THEN [ret |-> 1, err |-> "LYE_TOOMANY", flags |-> flags]
  ELSE IF shortint # 0
  THEN [ret |-> 0, err |-> "none", flags |-> flags \cup (value \cap ShortBits)]
  ELSE [ret |-> 0, err |-> "none", flags |-> flags \cup value]

\* struct yang_type with the restrictions of its type; length is
\* info.str.length or info.binary.length, range and dig are info.dec64
ZeroType ==
  [base |-> "DER", length |-> NULLSTR, range |-> NULLSTR, dig |-> 0, div |-> <<0>>]

\* 1074-1104: a return of NULL is ret 1
yang_read_length(typ, value) ==
  IF typ.base \notin {"DER", "STRING", "BINARY"}
  THEN [ret |-> 1, err |-> "LYE_SPEC", typ |-> typ]
  ELSE IF typ.length # NULLSTR
  THEN [ret |-> 1, err |-> "LYE_TOOMANY",
        typ |-> [typ EXCEPT !.base = IF @ = "DER" THEN "STRING" ELSE @]]
  ELSE [ret |-> 0, err |-> "none",
        typ |-> [typ EXCEPT !.base = IF @ = "DER" THEN "STRING" ELSE @,
                            !.length = value]]

\* 1120-1143
yang_read_range(typ, value) ==
  IF typ.base \notin {"DER", "DEC64"} THEN [ret |-> 1, err |-> "LYE_SPEC", typ |-> typ]
  ELSE IF typ.range # NULLSTR
  THEN [ret |-> 1, err |-> "LYE_TOOMANY", typ |-> [typ EXCEPT !.base = "DEC64"]]
  ELSE [ret |-> 0, err |-> "none", typ |-> [typ EXCEPT !.base = "DEC64", !.range = value]]

\* 1166-1169: div, a uint64_t that holds 10^18, as its decimal digits
Power10(value) == [i \in 1..(value + 1) |-> IF i = 1 THEN 1 ELSE 0]

\* 1145-1175
yang_read_fraction(typ, value) ==
  IF typ.base \notin {"DER", "DEC64"} THEN [ret |-> 1, err |-> "LYE_SPEC", typ |-> typ]
  ELSE IF typ.dig # 0
  THEN [ret |-> 1, err |-> "LYE_TOOMANY", typ |-> [typ EXCEPT !.base = "DEC64"]]
  ELSE IF value < 1 \/ value > 18
  THEN [ret |-> 1, err |-> "LYE_SPEC", typ |-> [typ EXCEPT !.base = "DEC64"]]
  ELSE [ret |-> 0, err |-> "none",
        typ |-> [typ EXCEPT !.base = "DEC64", !.dig = value, !.div = Power10(value)]]

\* ----------------------------------------------------------------------
\* Specification of the at-most-once statements of one module, node and type
\* ----------------------------------------------------------------------
OnceTexts == {"t1", "t2"}
OnceDigits == {0, 1, 18, 19}
OnceBases == {"DER", "BINARY"}

\* the parser's position: the fields the statements are stored in
OnceCur(count, str, presence, when, flags, typ) ==
  [phase |-> "statements", count |-> count, str |-> str, presence |-> presence,
   when |-> when, flags |-> flags, typ |-> typ]

\* read: the statements accepted before the call; seen: the fields before it
OnceOp(name, arg, ret, err, read, seen) ==
  [name |-> name, arg |-> arg, ret |-> ret, err |-> err, read |-> read, seen |-> seen]

InitOnce ==
  /\ nodes = [n \in NodeIds |-> ZeroNode]
  /\ mods = <<>>
  /\ models = <<>>
  /\ \E base \in OnceBases :
       cur = OnceCur(0, [t \in StringTargets |-> NULLSTR], NULLSTR, NULLSTR, {},
                     [ZeroType EXCEPT !.base = base])
  /\ op = OnceOp("init", NULLSTR, 0, "none", {}, <<>>)
  /\ load = NoLoad

\* the statement name was read with the value arg; the call returned ret and
\* reported err
OnceStep(name, arg, ret, err) ==
  /\ op' = OnceOp(name, arg, ret, err,
                  IF op.name \in StringTargets \cup {"presence", "when", "config", "status",
                       "mandatory", "ordered-by", "length", "range", "fraction-digits"}
                     /\ op.ret = 0
                  THEN op.read \cup {op.name} ELSE op.read,
                  cur)
  /\ UNCHANGED <<nodes, mods, models, load>>

OnceOpen == cur.phase = "statements" /\ cur.count < MaxStatements

OnceStringRead(r, what, value) ==
  /\ cur' = [cur EXCEPT !.count = @ + 1, !.str[what] = r.target]
  /\ OnceStep(what, value, r.ret, r.err)

OnceString ==
  /\ OnceOpen
  /\ \E what \in StringTargets, value \in OnceTexts :
       OnceStringRead(yang_check_string(cur.str[what], value), what, value)

OncePresenceRead(r, value) ==
  /\ cur' = [cur EXCEPT !.count = @ + 1, !.presence = r.presence]
  /\ OnceStep("presence", value, r.ret, r.err)

OncePresence ==
  /\ OnceOpen
  /\ \E value \in OnceTexts : OncePresenceRead(yang_read_presence(cur.presence, value), value)

OnceWhenRead(r, value) ==
  /\ cur' = [cur EXCEPT !.count = @ + 1, !.when = r.when]
  /\ OnceStep("when", value, r.ret, r.err)

OnceWhen ==
  /\ OnceOpen
  /\ \E value \in OnceTexts, syntax \in {0, 1} :
       OnceWhenRead(yang_read_when(cur.when, value, syntax), value)

OnceFlagsRead(r, what, value) ==
  /\ cur' = [cur EXCEPT !.count = @ + 1, !.flags = r.flags]
  /\ OnceStep(what, value, r.ret, r.err)

\* a statement whose mask lies in the low byte is also read into a uint8_t
OnceFlags ==
  /\ OnceOpen
  /\ \E st \in FlagStatements, shortint \in {0, 1} :
       /\ shortint = 1 => st.mask \subseteq ShortBits
       /\ \E value \in st.values :
            OnceFlagsRead(yang_check_flags(cur.flags, st.mask, value, shortint),
                          st.what, value)

OnceTypeRead(r, what, value) ==
  /\ cur' = [cur EXCEPT !.count = @ + 1, !.typ = r.typ]
  /\ OnceStep(what, value, r.ret, r.err)

OnceLength ==
  /\ OnceOpen
  /\ \E value \in OnceTexts : OnceTypeRead(yang_read_length(cur.typ, value), "length", value)

OnceRange ==
  /\ OnceOpen
  /\ \E value \in OnceTexts : OnceTypeRead(yang_read_range(cur.typ, value), "range", value)

OnceFraction ==
  /\ OnceOpen
  /\ \E value \in OnceDigits :
       OnceTypeRead(yang_read_fraction(cur.typ, value), "fraction-digits", value)

NextOnce ==
  \/ OnceString
  \/ OncePresence
  \/ OnceWhen
  \/ OnceFlags
  \/ OnceLength
  \/ OnceRange
  \/ OnceFraction

SpecOnce == InitOnce /\ [][NextOnce]_vars

\* ----------------------------------------------------------------------
\* C18: at-most-once statements
\* ----------------------------------------------------------------------
\* the statements accepted up to and with the last call
OnceRead ==
  IF op.name # "init" /\ op.ret = 0 THEN op.read \cup {op.name} ELSE op.read

\* the values the statements have stored in the fields c
OnceStored(c) ==
  [str |-> c.str, presence |-> c.presence, when |-> c.when, flags |-> c.flags,
   length |-> c.typ.length, range |-> c.typ.range, dig |-> c.typ.dig, div |-> c.typ.div]

Int64(hi, lo) == [hi |-> hi, lo |-> lo]
INT32_MAX == Int64(2 ^ 15 - 1, 2 ^ 16 - 1)
UINT32_MAX == Int64(2 ^ 16 - 1, 2 ^ 16 - 1)

\* a > b
Greater64(a, b) == a.hi > b.hi \/ (a.hi = b.hi /\ a.lo > b.lo)

\* a + 1
Succ64(a) == IF a.lo = 2 ^ 16 - 1 THEN Int64(a.hi + 1, 0) ELSE Int64(a.hi, a.lo + 1)

\* a calloc'ed struct lys_type_enum, struct lys_type_bit: value is the value
\* of an enum and the position of a bit
ZeroEnum == [name |-> NULLSTR, value |-> Int64(0, 0), flags |-> {}, dsc |-> NULLSTR]

\* the names that begin or end with a whitespace character
SpaceNames == {" d"}

TypeResult(ret, items, value) == [ret |-> ret, items |-> items, value |-> value]

\* 1177-1205: enm is info.enums.enm[0 .. count-1]; the entry is written and
\* counted whether the name is accepted or not; a return of NULL is ret 1
yang_read_enum(enm, value) ==
  [ret |-> IF value \in SpaceNames \/ \E i \in 1..Len(enm) : enm[i].name = value
           THEN 1 ELSE 0,
   items |-> Append(enm, [ZeroEnum EXCEPT !.name = value])]

\* 1239-1265: ident is the value of lyp_check_identifier; the entry is not
\* counted when the identifier is rejected
yang_read_bit(bit, value, ident) ==
  IF ident # 0 THEN [ret |-> 1, items |-> bit]
  ELSE [ret |-> IF \E i \in 1..Len(bit) : bit[i].name = value THEN 1 ELSE 0,
        items |-> Append(bit, [ZeroEnum EXCEPT !.name = value])]

\* the value statement of an enum and the position statement of a bit: the
\* value is stored in the last entry and the next value to assign follows it
read_value(items, value) ==
  TypeResult(0, [items EXCEPT ![Len(items)].value = value], Succ64(value))

enum_overflow_never(value) == FALSE

\* 1214: *value > INT32_MAX
enum_overflow(value) == Greater64(value, INT32_MAX)

\* 1218-1220
assign_value(items, value) ==
  TypeResult(0, [items EXCEPT ![Len(items)].value = value,
                              ![Len(items)].flags = @ \cup {"AUTOASSIGNED"}],
             Succ64(value))

\* 1223-1231: the value of the last entry is that of no entry before it
enum_unique(r) ==
  IF \E i \in 1..(Len(r.items) - 1) : r.items[i].value = r.items[Len(r.items)].value
  THEN TypeResult(1, r.items, r.value)
  ELSE r

\* 1207-1237: enm is the last entry of the array, value the next value to
\* assign
yang_check_enum(items, value, assign) ==
  IF assign = 0
  THEN IF enum_overflow(value) THEN TypeResult(1, items, value)
       ELSE enum_unique(assign_value(items, value))
  ELSE enum_unique(TypeResult(0, items, value))

\* the array is left as it is
bit_order_keep(bit, j) == bit

RECURSIVE bit_order(_, _)
\* 1291-1298: keep them ordered by position; j counts from 1
bit_order(bit, j) ==
  IF j > 1 /\ Greater64(bit[j - 1].value, bit[j].value)
  THEN bit_order([bit EXCEPT ![j] = bit[j - 1], ![j - 1] = bit[j]], j - 1)
  ELSE bit

\* 1283-1298
bit_unique(r) ==
  IF r.ret # 0 THEN r
  ELSE IF \E i \in 1..(Len(r.items) - 1) : r.items[i].value = r.items[Len(r.items)].value
  THEN TypeResult(1, r.items, r.value)
  ELSE TypeResult(0, bit_order(r.items, Len(r.items)), r.value)

\* 1267-1306: bit is the last entry of the array
yang_check_bit(items, value, assign) ==
  IF assign = 0
  THEN IF Greater64(value, UINT32_MAX) THEN TypeResult(1, items, value)
       ELSE bit_unique(assign_value(items, value))
  ELSE bit_unique(TypeResult(0, items, value))

\* ----------------------------------------------------------------------
\* Specification of the enum and bit statements of a type
\* ----------------------------------------------------------------------
TypeKinds == {"enumeration", "bits"}
TypeNames == {"a", "b", "c", " d"}
\* the values of the value statements and of the position statements
EnumValues == {Int64(-1, 2 ^ 16 - 1), Int64(0, 1), Int64(2 ^ 15 - 1, 2 ^ 16 - 2), INT32_MAX}
BitPositions == {Int64(0, 0), Int64(0, 2), Int64(2 ^ 16 - 1, 2 ^ 16 - 2), UINT32_MAX}

\* the parser's position: the array of the type and the next value to assign
TypeCur(phase, kind, items, value) ==
  [phase |-> phase, kind |-> kind, items |-> items, value |-> value]

\* read: the statements in the order of the text, each with its name, with
\* assign (1 with a value or position statement), that value and the
\* description
TypeOp(name, arg, ret, read) == [name |-> name, arg |-> arg, ret |-> ret, read |-> read]

Declared(name, assign, value, dsc) ==
  [name |-> name, assign |-> assign, value |-> value, dsc |-> dsc]

InitType ==
  /\ nodes = [n \in NodeIds |-> ZeroNode]
  /\ mods = <<>>
  /\ models = <<>>
  /\ \E kind \in TypeKinds : cur = TypeCur("type", kind, <<>>, Int64(0, 0))
  /\ op = TypeOp("init", NULLSTR, 0, <<>>)
  /\ load = NoLoad

TypeStep(r, name, d) ==
  /\ cur' = TypeCur(IF r.ret = 0 THEN "type" ELSE "failed", cur.kind, r.items, r.value)
  /\ op' = TypeOp(name, d.name, r.ret, Append(op.read, d))
  /\ UNCHANGED <<nodes, mods, models, load>>

TypeOpen(kind) ==
  /\ cur.phase = "type"
  /\ cur.kind = kind
  /\ Len(cur.items) < MaxEnums

\* the description of the entry is read before its value
enum_description(r, dsc) ==
  [r EXCEPT !.items[Len(r.items)].dsc = yang_check_string(@, dsc).target]

\* an enum statement without a value statement
enum_statement(items, value, name, dsc) ==
  IF yang_read_enum(items, name).ret # 0
  THEN TypeResult(1, yang_read_enum(items, name).items, value)
  ELSE yang_check_enum(enum_description(yang_read_enum(items, name), dsc).items, value, 0)

\* an enum statement with the value statement v
enum_statement_value(items, value, name, dsc, v) ==
  IF yang_read_enum(items, name).ret # 0
  THEN TypeResult(1, yang_read_enum(items, name).items, value)
  ELSE yang_check_enum(
         read_value(enum_description(yang_read_enum(items, name), dsc).items, v).items,
         Succ64(v), 1)

\* a bit statement without a position statement
bit_statement(items, value, name, dsc, ident) ==
  IF yang_read_bit(items, name, ident).ret # 0
  THEN TypeResult(1, yang_read_bit(items, name, ident).items, value)
  ELSE yang_check_bit(enum_description(yang_read_bit(items, name, ident), dsc).items,
                      value, 0)

\* a bit statement with the position statement v
bit_statement_position(items, value, name, dsc, ident, v) ==
  IF yang_read_bit(items, name, ident).ret # 0
  THEN TypeResult(1, yang_read_bit(items, name, ident).items, value)
  ELSE yang_check_bit(
         read_value(enum_description(yang_read_bit(items, name, ident), dsc).items, v).items,
         Succ64(v), 1)

TypeTexts == {NULLSTR, "t1"}

TypeEnum ==
  /\ TypeOpen("enumeration")
  /\ \E name \in TypeNames, dsc \in TypeTexts :
       TypeStep(enum_statement(cur.items, cur.value, name, dsc), "enum",
                Declared(name, 0, Int64(0, 0), dsc))

TypeEnumValue ==
  /\ TypeOpen("enumeration")
  /\ \E name \in TypeNames, dsc \in TypeTexts, v \in EnumValues :
       TypeStep(enum_statement_value(cur.items, cur.value, name, dsc, v), "enum",
                Declared(name, 1, v, dsc))

TypeBit ==
  /\ TypeOpen("bits")
  /\ \E name \in TypeNames, dsc \in TypeTexts :
       TypeStep(bit_statement(cur.items, cur.value, name, dsc,
                              IF name \in SpaceNames THEN 1 ELSE 0),
                "bit", Declared(name, 0, Int64(0, 0), dsc))

TypeBitPosition ==
  /\ TypeOpen("bits")
  /\ \E name \in TypeNames, dsc \in TypeTexts, v \in BitPositions :
       TypeStep(bit_statement_position(cur.items, cur.value, name, dsc,
                                       IF name \in SpaceNames THEN 1 ELSE 0, v),
                "bit", Declared(name, 1, v, dsc))

NextType == TypeEnum \/ TypeEnumValue \/ TypeBit \/ TypeBitPosition

SpecType == InitType /\ [][NextType]_vars

\* ----------------------------------------------------------------------
\* C19, C20: values of enums, positions of bits
\* ----------------------------------------------------------------------
\* the entry of the array called name
ItemOf(name) == CHOOSE e \in SeqSet(cur.items) : e.name = name

\* the value the i-th statement gets without a value or position statement
NextValue(i) ==
  IF i = 1 THEN Int64(0, 0) ELSE Succ64(ItemOf(op.read[i - 1].name).value)

\* C19: after accepted enum or bit statements an entry declared without a
\* value or position holds one more than the entry declared before it, 0 when
\* it is the first, and is flagged auto-assigned; no enum value is above
\* INT32_MAX and no bit position above UINT32_MAX; the values of the enums of
\* the type are pairwise distinct.
C19_AutoAssignedValues ==
  /\ \A i \in 1..Len(cur.items) :
       ~Greater64(cur.items[i].value,
                  IF cur.kind = "enumeration" THEN INT32_MAX ELSE UINT32_MAX)
  /\ cur.phase = "type" =>
       /\ \A i \in 1..Len(op.read) :
            IF op.read[i].assign = 0
            THEN /\ ItemOf(op.read[i].name).value = NextValue(i)
                 /\ "AUTOASSIGNED" \in ItemOf(op.read[i].name).flags
            ELSE ItemOf(op.read[i].name).value = op.read[i].value
       /\ cur.kind = "enumeration" =>
            \A i, j \in 1..Len(cur.items) :
              cur.items[i].value = cur.items[j].value => i = j

\* an enum without a value follows the enum of value INT32_MAX - 1 and one
\* more enum without a value was rejected
C19_Witness ==
  /\ cur.kind = "enumeration"
  /\ cur.phase = "failed"
  /\ Len(op.read) = MaxEnums
  /\ op.read[MaxEnums].assign = 0
  /\ op.read[MaxEnums - 1].assign = 0
  /\ "AUTOASSIGNED" \in cur.items[MaxEnums - 1].flags
  /\ cur.items[MaxEnums - 1].value = INT32_MAX
  /\ cur.items[MaxEnums].name = op.read[MaxEnums].name
  /\ Greater64(cur.value, INT32_MAX)

\* C20: after accepted bit statements the bits of the type are in strictly
\* ascending order of position, and every bit declared is in the array with
\* its name, its description and its flags.
C20_BitsAscending ==
  (cur.kind = "bits" /\ cur.phase = "type") =>
    /\ \A i \in 1..(Len(cur.items) - 1) :
         Greater64(cur.items[i + 1].value, cur.items[i].value)
    /\ Len(cur.items) = Len(op.read)
    /\ \A i \in 1..Len(op.read) :
         \E j \in 1..Len(cur.items) :
           /\ cur.items[j].name = op.read[i].name
           /\ cur.items[j].dsc = op.read[i].dsc
           /\ cur.items[j].flags = IF op.read[i].assign = 0 THEN {"AUTOASSIGNED"} ELSE {}
           /\ op.read[i].assign = 1 => cur.items[j].value = op.read[i].value

\* the bit declared last, with a description, has moved to the front
C20_Witness ==
  /\ cur.kind = "bits"
  /\ cur.phase = "type"
  /\ Len(cur.items) = MaxEnums
  /\ cur.items[1].name = op.read[MaxEnums].name
  /\ cur.items[1].dsc # NULLSTR
  /\ cur.items[MaxEnums].dsc = NULLSTR
  /\ "AUTOASSIGNED" \in cur.items[MaxEnums].flags

\* ----------------------------------------------------------------------
\* lys_leaf_add_leafref_target: the leaves of one module; a leaf is a leaf or a
\* leaf-list, of type leafref (with the leaf its path names) or string
\* ----------------------------------------------------------------------
LeafIds == 1..MaxLeaves

\* nodetype, type.base, type.info.lref.path as the leaf it names,
\* type.info.lref.target, and child: the set of the leafrefs referencing the leaf
Leaf(nodetype, base, path) ==
  [nodetype |-> nodetype, base |-> base, path |-> path, target |-> NULL, child |-> {}]

LeafShapes ==
  {Leaf(t, "leafref", p) : t \in {"leaf"}, p \in LeafIds}
  \cup {Leaf("leaf", "string", NULL), Leaf("leaflist", "string", NULL)}

LrefResult(ret, err, nd) == [ret |-> ret, err |-> err, nodes |-> nd]

\* as lref_cycle, but no leaf is ever taken for the leafref
lref_cycle_none(nd, iter, leafref, fuel) == "free"

\* 5401-5408: the walk along the targets; "cycle" when it meets leafref, "free"
\* at its end, "endless" when it does not end
RECURSIVE lref_cycle(_, _, _, _)
lref_cycle(nd, iter, leafref, fuel) ==
  IF iter = NULL \/ nd[iter].base # "leafref" THEN "free"
  ELSE IF iter = leafref THEN "cycle"
  ELSE IF fuel = 0 THEN "endless"
  ELSE lref_cycle(nd, nd[iter].target, leafref, fuel - 1)

\* 5410-5419: ly_set_add to the set of the target
lref_set_add(nd, leafref_target, leafref) ==
  [nd EXCEPT ![leafref_target].child = @ \cup {leafref}]

\* 5390-5422
lys_leaf_add_leafref_target(nd, leafref_target, leafref) ==
  IF nd[leafref_target].nodetype # "leaf" THEN LrefResult(-1, "LOGINT", nd)
  ELSE IF lref_cycle(nd, leafref_target, leafref, MaxLeaves) = "cycle"
  THEN LrefResult(-1, "LYE_CIRC_LEAFREFS", nd)
  ELSE IF lref_cycle(nd, leafref_target, leafref, MaxLeaves) = "endless"
  THEN LrefResult(-2, "endless", nd)
  ELSE LrefResult(0, "none", lref_set_add(nd, leafref_target, leafref))

\* the resolution of the path of a leafref: the target is stored in the type,
\* then the back-edge is registered
resolve_leafref(nd, leafref) ==
  lys_leaf_add_leafref_target([nd EXCEPT ![leafref].target = nd[leafref].path],
                              nd[leafref].path, leafref)

LrefOp(name, leafref, ret, err, before) ==
  [name |-> name, leafref |-> leafref, ret |-> ret, err |-> err, before |-> before]

InitLref ==
  /\ nodes \in [LeafIds -> LeafShapes]
  /\ mods = <<>>
  /\ models = <<>>
  /\ cur = "resolving"
  /\ op = LrefOp("init", NULL, 0, "none", nodes)
  /\ load = NoLoad

LrefStep(r, leafref) ==
  /\ nodes' = r.nodes
  /\ cur' = IF r.ret = 0 THEN "resolving" ELSE "failed"
  /\ op' = LrefOp("resolve", leafref, r.ret, r.err, nodes)
  /\ UNCHANGED <<mods, models, load>>

\* one entry of the unresolved leafrefs is resolved; a failure ends the load
LrefResolve ==
  /\ cur = "resolving"
  /\ \E leafref \in LeafIds :
       /\ nodes[leafref].base = "leafref"
       /\ nodes[leafref].target = NULL
       /\ LrefStep(resolve_leafref(nodes, leafref), leafref)

NextLref == LrefResolve

SpecLref == InitLref /\ [][NextLref]_vars

\* the leaves reached from the leaves of s along the paths of the leafrefs that
\* are resolved in nd
LrefNext(nd, s) ==
  {nd[l].target : l \in {x \in s : nd[x].base = "leafref"}} \ {NULL}

RECURSIVE LrefReach(_, _, _)
LrefReach(nd, s, k) ==
  IF k = 0 THEN s ELSE LrefReach(nd, s \cup LrefNext(nd, s), k - 1)

\* leaf a is on a cycle of targets
LrefOnCycle(nd, a) ==
  nd[a].base = "leafref" /\ a \in LrefReach(nd, LrefNext(nd, {a}), MaxLeaves)

\* the back-edges, as pairs <<leafref, target>>
LrefEdges(nd) == {<<a, b>> \in LeafIds \X LeafIds : a \in nd[b].child}

\* the leafref of the last resolution with its path stored
LrefStored == [op.before EXCEPT ![op.leafref].target = op.before[op.leafref].path]

\* the leaves reached from a along the registered back-edges, each followed from
\* the leafref to its target
RECURSIVE LrefEdgeReach(_, _, _)
LrefEdgeReach(nd, s, k) ==
  IF k = 0 THEN s
  ELSE LrefEdgeReach(nd, s \cup {e[2] : e \in {x \in LrefEdges(nd) : x[1] \in s}}, k - 1)

LrefEdgeCycle(nd, a) ==
  a \in LrefEdgeReach(nd, {e[2] : e \in {x \in LrefEdges(nd) : x[1] = a}}, MaxLeaves)

\* C21: the registered back-edges, followed from leafref to target, never form a
\* cycle, and while the load goes on no leafref lies on a cycle of targets; the
\* resolution that would close a cycle (of one leaf, of two, or longer) fails
\* with the circular-leafref error and adds no back-edge; a resolution that
\* succeeds adds the leafref to the set of its target, and nothing else; the
\* walk along the targets always ends.
C21_LeafrefAcyclic ==
  /\ \A a \in LeafIds : ~LrefEdgeCycle(nodes, a)
  /\ cur = "resolving" => \A a \in LeafIds : ~LrefOnCycle(nodes, a)
  /\ op.name = "resolve" =>
       /\ op.err # "endless"
       /\ (LrefOnCycle(LrefStored, op.leafref)
             /\ op.before[op.before[op.leafref].path].nodetype = "leaf")
            => /\ op.ret = -1
               /\ op.err = "LYE_CIRC_LEAFREFS"
               /\ LrefEdges(nodes) = LrefEdges(op.before)
       /\ op.ret = 0 =>
            LrefEdges(nodes)
              = LrefEdges(op.before) \cup {<<op.leafref, op.before[op.leafref].path>>}

\* the third leafref of a chain of three closes the cycle and is refused
C21_Witness ==
  /\ op.name = "resolve"
  /\ op.err = "LYE_CIRC_LEAFREFS"
  /\ Cardinality(LrefEdges(nodes)) = 2
  /\ \A l \in LeafIds : nodes[l].path \notin {NULL, l}

\* ----------------------------------------------------------------------
\* nacm_inherit: the schema nodes of one module, node n below parent[n]
\* (0 at the top level), siblings in the order of their numbers
\* ----------------------------------------------------------------------
NacmIds == 1..MaxNacmNodes
NacmTypes == {"container", "leaf", "choice", "grouping"}
NacmFlags == {{}, {"DENYW"}}

NacmNode(nodetype, parent, nacm) == [nodetype |-> nodetype, parent |-> parent, nacm |-> nacm]

\* the trees: a parent has a smaller number than its children, and a leaf has none
NacmTrees ==
  {t \in [NacmIds -> [nodetype : NacmTypes, parent : 0..(MaxNacmNodes - 1), nacm : NacmFlags]] :
     \A n \in NacmIds : /\ t[n].parent < n
                        /\ t[n].parent # 0 => t[t[n].parent].nodetype # "leaf"}

\* 2133-2161: the switch over the node type of elem, whose parent is visited
nacm_elem(nd, elem) ==
  IF nd[elem].parent = NULL THEN nd
  ELSE IF nd[elem].nodetype = "grouping" THEN nd
  ELSE IF nd[elem].nodetype \in {"choice", "anyxml", "uses"}
  THEN IF nd[nd[elem].parent].nodetype # "grouping"
       THEN [nd EXCEPT ![elem].nacm = @ \cup nd[nd[elem].parent].nacm]
       ELSE nd
  ELSE IF nd[elem].nodetype \in {"container", "list", "case", "notif", "rpc", "input",
                                 "output", "augment"}
  THEN [nd EXCEPT ![elem].nacm = @ \cup nd[nd[elem].parent].nacm]
  ELSE nd

\* LY_TREE_DFS_BEGIN .. LY_TREE_DFS_END: the nodes in the order of the walk, a
\* parent before its children; the numbers of the nodes are in that order
RECURSIVE nacm_walk(_, _)
nacm_walk(nd, elem) ==
  IF elem > MaxNacmNodes THEN nd ELSE nacm_walk(nacm_elem(nd, elem), elem + 1)

\* 2125-2168
nacm_inherit(nd) == nacm_walk(nd, 1)

InitNacm ==
  /\ nodes \in NacmTrees
  /\ mods = <<>>
  /\ models = <<>>
  /\ cur = "sealing"
  /\ op = [name |-> "init", before |-> nodes]
  /\ load = NoLoad

NacmInherit ==
  /\ cur = "sealing"
  /\ nodes' = nacm_inherit(nodes)
  /\ cur' = "sealed"
  /\ op' = [name |-> "nacm_inherit", before |-> nodes]
  /\ UNCHANGED <<mods, models, load>>

NextNacm == NacmInherit

SpecNacm == InitNacm /\ [][NextNacm]_vars

\* C22: after nacm_inherit every node that has a parent and is no grouping has
\* its own flags together with the resulting flags of its parent, a child of a
\* grouping and a grouping keep their own flags.
C22_NacmInherited ==
  op.name = "nacm_inherit" =>
    \A n \in NacmIds :
      nodes[n].nacm =
        IF nodes[n].parent = NULL \/ nodes[n].nodetype = "grouping"
           \/ nodes[nodes[n].parent].nodetype = "grouping"
        THEN op.before[n].nacm
        ELSE op.before[n].nacm \cup nodes[nodes[n].parent].nacm

\* ----------------------------------------------------------------------
\* lys_node_dup with shallow = 0: the copy of a grouping's node below a uses
\* ----------------------------------------------------------------------
\* yields [ret, nodes, mods]; ret is the copy, NULL after an error
DupResult(ret, w) == [ret |-> ret, nodes |-> w.nodes, mods |-> w.mods]

\* as dup_generic, but the copy keeps the NACM flags of the node it is made of
dup_generic_own(nd, retval, module, node, flags, nacm) ==
  [ZeroNode EXCEPT
     !.name = nd[node].name,
     !.nacm = nd[node].nacm,
     !.flags = IF nd[node].flags \cap CONFIG_MASK = {}
               THEN nd[node].flags \cup (flags \cap CONFIG_MASK)
               ELSE nd[node].flags,
     !.module = module,
     !.nodetype = nd[node].nodetype,
     !.prev = retval]

\* 4811-4826: the generic part of the structure
dup_generic(nd, retval, module, node, flags, nacm) ==
  [ZeroNode EXCEPT
     !.name = nd[node].name,
     !.nacm = nacm,
     !.flags = IF nd[node].flags \cap CONFIG_MASK = {}
               THEN nd[node].flags \cup (flags \cap CONFIG_MASK)
               ELSE nd[node].flags,
     !.module = module,
     !.nodetype = nd[node].nodetype,
     !.prev = retval]

\* 4741-4826: the calloc'ed copy with its generic part
dup_calloc(w, retval, module, node, flags, nacm) ==
  World([w.nodes EXCEPT ![retval] = dup_generic(w.nodes, retval, module, node, flags, nacm)],
        w.mods)

\* 4870-4935: the specific part of a leaf or a leaf-list
dup_specific(r, retval, node) ==
  IF r.ret # NULL /\ r.nodes[node].nodetype \in {"leaf", "leaflist"}
  THEN DupResult(r.ret,
                 World([r.nodes EXCEPT ![retval].units = r.nodes[node].units,
                                       ![retval].dflt = r.nodes[node].dflt,
                                       ![retval].min = r.nodes[node].min,
                                       ![retval].max = r.nodes[node].max],
                       r.mods))
  ELSE r

\* 5080-5084: error: lys_node_free(retval, NULL, 0)
dup_error(w, retval) == DupResult(NULL, lys_node_free(w, retval, FALSE))

RECURSIVE lys_node_dup(_, _, _, _, _, _, _)
RECURSIVE dup_children(_, _, _, _, _)

\* 4852-4856: after the copy of one child, the next one
dup_next(r, module, retval, child, fuel) ==
  IF r.ret = NULL THEN dup_error(World(r.nodes, r.mods), retval)
  ELSE dup_children(World(r.nodes, r.mods), module, retval, r.nodes[child].next, fuel)

\* 4850-4857: go recursively
dup_children(w, module, retval, child, fuel) ==
  IF child = NULL \/ fuel = 0 THEN DupResult(retval, w)
  ELSE dup_next(lys_node_dup(w, module, retval, child, w.nodes[retval].flags,
                             w.nodes[retval].nacm, fuel - 1),
                module, retval, child, fuel - 1)

\* 4844-4857: connect the copy to the parent, then its children
dup_connected(r, module, retval, node, fuel) ==
  IF r.ret # "ok" THEN dup_error(World(r.nodes, r.mods), retval)
  ELSE IF r.nodes[node].nodetype \in {"leaf", "leaflist"}
  THEN DupResult(retval, World(r.nodes, r.mods))
  ELSE dup_children(World(r.nodes, r.mods), module, retval, r.nodes[node].child, fuel)

\* 4703-5085 with shallow = 0
lys_node_dup(w, module, parent, node, flags, nacm, fuel) ==
  IF AllocNode(w.nodes) = NULL THEN DupResult(NULL, w)
  ELSE dup_specific(
         dup_connected(
           lys_node_addchild(dup_calloc(w, AllocNode(w.nodes), module, node, flags, nacm),
                             parent, module, AllocNode(w.nodes)),
           module, AllocNode(w.nodes), node, fuel),
         AllocNode(w.nodes), node)

\* ----------------------------------------------------------------------
\* Specification: module D defines grouping g, module C has
\* container c { leaf b; uses g; }; the nodes of g are read, then copied
\* ----------------------------------------------------------------------
DupC == 1
DupB == 2
DupUses == 3
DupGrp == 4

DupMods ==
  [m \in ModIds |->
     IF m = ModC THEN [ZeroMod EXCEPT !.name = "C", !.implemented = 1, !.data = DupC]
     ELSE IF m = ModD THEN [ZeroMod EXCEPT !.name = "D", !.data = DupGrp]
     ELSE ZeroMod]

\* the use-site: its config flag and the NACM flags of the uses
DupSites == {[flags |-> {"CONFIG_W"}, nacm |-> {}],
             [flags |-> {"CONFIG_R"}, nacm |-> {"DENYW"}]}

DupHeap(site) ==
  [n \in NodeIds |->
     IF n = DupC
     THEN [ZeroNode EXCEPT !.name = "c", !.nodetype = "container", !.module = ModC,
                           !.prev = DupC, !.child = DupB, !.flags = site.flags]
     ELSE IF n = DupB
     THEN [ZeroNode EXCEPT !.name = "b", !.nodetype = "leaf", !.module = ModC,
                           !.parent = DupC, !.prev = DupUses, !.next = DupUses,
                           !.flags = site.flags]
     ELSE IF n = DupUses
     THEN [ZeroNode EXCEPT !.name = "g", !.nodetype = "uses", !.module = ModC,
                           !.parent = DupC, !.prev = DupB, !.flags = site.flags,
                           !.nacm = site.nacm]
     ELSE IF n = DupGrp
     THEN [ZeroNode EXCEPT !.name = "g", !.nodetype = "grouping", !.module = ModD,
                           !.prev = DupGrp]
     ELSE ZeroNode]

DupNames == {"a", "b"}
DupTypes == {"container", "leaf"}
\* the config statement and the NACM extension of a node of the grouping
DupStatements == {[flags |-> {}, nacm |-> {}],
                  [flags |-> {"CONFIG_W"}, nacm |-> {}],
                  [flags |-> {"CONFIG_R"}, nacm |-> {"DENYA"}]}

DupCur(phase, child) == [phase |-> phase, child |-> child]
DupOp(name, node, ret, before) ==
  [name |-> name, node |-> node, ret |-> ret, before |-> before]

InitDup ==
  /\ \E site \in DupSites : nodes = DupHeap(site)
  /\ mods = DupMods
  /\ models = <<ModC, ModD>>
  /\ cur = DupCur("grouping", NULL)
  /\ op = DupOp("init", NULL, NULL, nodes)
  /\ load = NoLoad

\* the nodes of the grouping
DupBody(nd) == Subtree(nd, DupGrp) \ {DupGrp}

\* a statement of a node in the grouping, with its config and NACM statements
grouping_statement(r, st) ==
  IF r.ret # "ok" THEN r
  ELSE [r EXCEPT !.nodes[r.node].flags = st.flags, !.nodes[r.node].nacm = st.nacm]

DupRead(r) ==
  /\ nodes' = r.nodes
  /\ mods' = r.mods
  /\ op' = DupOp("read", r.node, r.ret, nodes)
  /\ UNCHANGED <<models, cur, load>>

DupReadNode ==
  /\ cur.phase = "grouping"
  /\ Cardinality(DupBody(nodes)) < MaxGroupNodes
  /\ \E parent \in Subtree(nodes, DupGrp), name \in DupNames, type \in DupTypes,
        st \in DupStatements :
       /\ nodes[parent].nodetype # "leaf"
       /\ DupRead(grouping_statement(
                    yang_read_node(World(nodes, mods), ModD, parent, name, type), st))

DupCopied(r, child) ==
  /\ nodes' = r.nodes
  /\ mods' = r.mods
  /\ cur' = IF r.ret = NULL THEN DupCur("failed", NULL)
            ELSE IF nodes[child].next = NULL THEN DupCur("done", NULL)
            ELSE DupCur("uses", nodes[child].next)
  /\ op' = DupOp("dup", child, r.ret, nodes)
  /\ UNCHANGED <<models, load>>

\* the child of the grouping the uses copies next
DupNextChild == IF cur.phase = "grouping" THEN nodes[DupGrp].child ELSE cur.child

\* the expansion of the uses: one child of the grouping is copied below the uses
DupChild ==
  /\ cur.phase \in {"grouping", "uses"}
  /\ DupNextChild # NULL
  /\ DupCopied(lys_node_dup(World(nodes, mods), nodes[DupUses].module, DupUses,
                            DupNextChild, nodes[DupUses].flags, nodes[DupUses].nacm, Fuel),
               DupNextChild)

NextDup == DupReadNode \/ DupChild

SpecDup == InitDup /\ [][NextDup]_vars

\* the copy cp, in the heap nd, agrees with the node n of the heap before it:
\* name, type, module, NACM flags, config flag and, child by child, the subtree
RECURSIVE DupAgrees(_, _, _, _, _, _, _)
DupAgrees(nd, before, cp, n, flags, nacm, fuel) ==
  /\ nd[cp].name = before[n].name
  /\ nd[cp].nodetype = before[n].nodetype
  /\ nd[cp].module = ModC
  /\ nd[cp].nacm = nacm
  /\ nd[cp].flags \cap CONFIG_MASK
       = IF before[n].flags \cap CONFIG_MASK # {} THEN before[n].flags \cap CONFIG_MASK
         ELSE flags \cap CONFIG_MASK
  /\ LET cs == Chain(nd, nd[cp].child, Fuel)
         ns == Chain(before, before[n].child, Fuel)
     IN /\ Len(cs) = Len(ns)
        /\ fuel > 0
        /\ \A i \in 1..Len(cs) :
             /\ nd[cs[i]].parent = cp
             /\ DupAgrees(nd, before, cs[i], ns[i], nd[cp].flags, nacm, fuel - 1)

AugC == 1
AugD == 2
AugE == 3

AugMods ==
  [m \in ModIds |->
     IF m = ModC THEN [ZeroMod EXCEPT !.name = "C", !.implemented = 1, !.data = AugC]
     ELSE IF m = ModD THEN [ZeroMod EXCEPT !.name = "D", !.augment = <<AugD>>]
     ELSE IF m = ModE THEN [ZeroMod EXCEPT !.name = "E", !.augment = <<AugE>>]
     ELSE ZeroMod]

AugHeap ==
  [n \in NodeIds |->
     IF n = AugC
     THEN [ZeroNode EXCEPT !.name = "c", !.nodetype = "container", !.module = ModC,
                           !.prev = AugC]
     ELSE IF n = AugD
     THEN [ZeroNode EXCEPT !.name = "/C:c", !.nodetype = "augment", !.module = ModD]
     ELSE IF n = AugE
     THEN [ZeroNode EXCEPT !.name = "/C:c", !.nodetype = "augment", !.module = ModE]
     ELSE ZeroNode]

\* the names of the nodes, in the order they are read
AugNames == <<"l", "extra", "more", "last">>

AugCur(phase, gone) == [phase |-> phase, gone |-> gone]
AugOp(name, aug, before) == [name |-> name, aug |-> aug, before |-> before]

InitAug ==
  /\ nodes = AugHeap
  /\ mods = AugMods
  /\ models = <<ModC, ModD, ModE>>
  /\ cur = AugCur("read", {})
  /\ op = AugOp("init", NULL, nodes)
  /\ load = NoLoad

\* the nodes read so far
AugRead == UsedNodes(nodes) \ {AugC, AugD, AugE}

AugStep(nd, phase, gone, o) ==
  /\ nodes' = nd
  /\ cur' = AugCur(phase, gone)
  /\ op' = o
  /\ UNCHANGED <<mods, models, load>>

\* a leaf statement in container c or in one of the augments
AugReadNode ==
  /\ cur.phase = "read"
  /\ Cardinality(AugRead) < MaxAugNodes
  /\ \E parent \in {AugC, AugD, AugE} :
       AugStep(yang_read_node(World(nodes, mods), nodes[parent].module, parent,
                              AugNames[Cardinality(AugRead) + 1], "leaf").nodes,
               "read", {}, AugOp("read", parent, nodes))

\* the children of the augment join the end of the child list of the target
apply_aug_children(nd, aug, target) ==
  IF nd[aug].child = NULL THEN nd
  ELSE IF nd[target].child # NULL
  THEN [nd EXCEPT ![nd[nd[target].child].prev].next = nd[aug].child,
                  ![nd[target].child].prev = nd[nd[aug].child].prev,
                  ![nd[aug].child].prev = nd[nd[target].child].prev]
  ELSE [nd EXCEPT ![target].child = nd[aug].child]

\* the resolution of an augment: its target is stored and its children are
\* connected to the target
resolve_augment(nd, aug, target) ==
  apply_aug_children([nd EXCEPT ![aug].target = target], aug, target)

AugApply ==
  /\ cur.phase \in {"read", "applied"}
  /\ \E aug \in {AugD, AugE} \ cur.gone :
       /\ nodes[aug].target = NULL
       /\ AugStep(resolve_augment(nodes, aug, AugC), "applied", cur.gone,
                  AugOp("apply", aug, nodes))

\* lys_sub_module_remove_devs_augs of D or of E
AugRemove ==
  \E module \in {ModD, ModE} :
    /\ nodes[mods[module].augment[1]].target # NULL
    /\ AugStep(lys_sub_module_remove_devs_augs(World(nodes, mods), module).nodes,
               "applied", cur.gone \cup {mods[module].augment[1]},
               AugOp("remove", mods[module].augment[1], nodes))

NextAug == AugReadNode \/ AugApply \/ AugRemove

SpecAug == InitAug /\ [][NextAug]_vars

\* the sibling list that starts at first ends, visits no node twice and has
\* its prev pointers right
AugWellFormed(nd, first) ==
  first # NULL =>
    LET c == Chain(nd, first, Fuel)
    IN /\ Len(c) < Fuel
       /\ \A i \in 1..Len(c), j \in 1..Len(c) : i # j => c[i] # c[j]
       /\ nd[first].prev = c[Len(c)]
       /\ \A i \in 2..Len(c) : nd[c[i]].prev = c[i - 1]

FirstOfSet(set) == IF set = {} THEN NULL ELSE CHOOSE n \in set : \A k \in set : n <= k

\* the heap of the tree t: every node with its child and next pointers
SchemaHeap(t) ==
  [n \in DOMAIN t |->
     [nodetype |-> t[n].nodetype, parent |-> t[n].parent, flags |-> t[n].flags,
      presence |-> t[n].presence, min |-> t[n].min, max |-> t[n].max,
      child |-> FirstOfSet({m \in DOMAIN t : t[m].parent = n}),
      next |-> FirstOfSet({m \in DOMAIN t : m > n /\ t[m].parent = t[n].parent})]]

\* the parents of the nodes of a tree, the nodes numbered in document order
TreeParents(ids) ==
  {pa \in [ids -> {NULL} \cup ids] :
     \A n \in ids : /\ pa[n] < n
                    /\ \A k \in ids : (pa[n] < k /\ k < n) => pa[k] >= pa[n]}

\* module->data of the tree
SchemaData(nd) == FirstOfSet({n \in DOMAIN nd : nd[n].parent = NULL})

\* ----------------------------------------------------------------------
\* lys_getnext
\* ----------------------------------------------------------------------
\* 2664-2731: from the label repeat on; -1 when the walk does not end
RECURSIVE getnext_repeat(_, _, _, _, _, _)
getnext_repeat(nd, last, next, parent, options, fuel) ==
  IF fuel = 0 THEN -1
  ELSE IF next # NULL /\ nd[next].nodetype = "grouping"
  THEN IF "WITHGROUPING" \in options THEN next
       ELSE getnext_repeat(nd, last, nd[next].next, parent, options, fuel - 1)
  ELSE IF next = NULL
  THEN IF last = NULL \/ lys_parent(nd, last) = parent \/ lys_parent(nd, last) = NULL
       THEN NULL
       ELSE getnext_repeat(nd, lys_parent(nd, last), nd[lys_parent(nd, last)].next, parent,
                           options, fuel - 1)
  ELSE IF nd[next].nodetype \in {"input", "output"}
  THEN IF "WITHINOUT" \in options THEN next
       ELSE getnext_repeat(nd, last, nd[next].child, parent, options, fuel - 1)
  ELSE IF nd[next].nodetype = "case"
  THEN IF "WITHCASE" \in options THEN next
       ELSE getnext_repeat(nd, last, nd[next].child, parent, options, fuel - 1)
  ELSE IF nd[next].nodetype = "uses"
  THEN getnext_repeat(nd, last, nd[next].child, parent, options, fuel - 1)
  ELSE IF nd[next].nodetype \in {"rpc", "notif", "container", "leaf", "anyxml", "list",
                                 "leaflist"}
  THEN next
  ELSE IF nd[next].nodetype = "choice"
  THEN IF "WITHCHOICE" \in options THEN next
       ELSE getnext_repeat(nd, last, nd[next].child, parent, options, fuel - 1)
  ELSE NULL

\* 2648-2661: where the walk starts; data is module->data
getnext_start(nd, parent, data) == IF parent # NULL THEN nd[parent].child ELSE data

\* 2643-2733
lys_getnext(nd, last, parent, data, options) ==
  IF last = NULL
  THEN getnext_repeat(nd, getnext_start(nd, parent, data), getnext_start(nd, parent, data),
                      parent, options, 2 * Fuel)
  ELSE getnext_repeat(nd, last, nd[last].next, parent, options, 2 * Fuel)

\* the nodes lys_getnext returns from last on, until it returns NULL
RECURSIVE getnext_all(_, _, _, _, _, _)
getnext_all(nd, last, parent, data, options, fuel) ==
  IF fuel = 0 \/ lys_getnext(nd, last, parent, data, options) \in {NULL, -1} THEN <<>>
  ELSE <<lys_getnext(nd, last, parent, data, options)>>
       \o getnext_all(nd, lys_getnext(nd, last, parent, data, options), parent, data,
                      options, fuel - 1)

\* ----------------------------------------------------------------------
\* check_mand_getnext, check_mand_check
\* ----------------------------------------------------------------------
\* 2742-2755: from the label repeat on
RECURSIVE mand_getnext_repeat(_, _, _)
mand_getnext_repeat(nd, next, fuel) ==
  IF fuel = 0 THEN -1
  ELSE IF next \notin {NULL, -1} /\ nd[next].nodetype = "container"
  THEN IF nd[next].presence THEN mand_getnext_repeat(nd, nd[next].next, fuel - 1)
       ELSE mand_getnext_repeat(nd, nd[next].child, fuel - 1)
  ELSE next

\* 2735-2756
check_mand_getnext(nd, last, parent) ==
  mand_getnext_repeat(nd, lys_getnext(nd, last, parent, NULL, {"WITHCHOICE"}), Fuel)

\* the nodes of a loop while ((saux = check_mand_getnext(saux, parent, NULL)))
RECURSIVE mand_getnext_all(_, _, _, _)
mand_getnext_all(nd, last, parent, fuel) ==
  IF fuel = 0 \/ check_mand_getnext(nd, last, parent) \in {NULL, -1} THEN <<>>
  ELSE <<check_mand_getnext(nd, last, parent)>>
       \o mand_getnext_all(nd, check_mand_getnext(nd, last, parent), parent, fuel - 1)

\* 2770-2787: the containers between node and stop, the nearest one first
RECURSIVE mand_set(_, _, _, _)
mand_set(nd, parent, stop, fuel) ==
  IF parent = NULL \/ parent = stop \/ fuel = 0 THEN <<>>
  ELSE IF nd[parent].nodetype # "container"
  THEN mand_set(nd, lys_parent(nd, parent), stop, fuel - 1)
  ELSE <<parent>> \o mand_set(nd, lys_parent(nd, parent), stop, fuel - 1)

\* LY_TREE_FOR(toplevel ? data : data->child, diter)
mand_siblings(dt, data, toplevel) ==
  Chain(dt, IF toplevel THEN data ELSE dt[data].child, Fuel)

\* the first data node of list that instantiates a schema node of set
mand_find(dt, list, set) ==
  IF \A i \in 1..Len(list) : dt[list[i]].schema \notin set THEN NULL
  ELSE list[FirstOfSet({i \in 1..Len(list) : dt[list[i]].schema \in set})]

MandLevel(data, toplevel, missing_parent, done) ==
  [data |-> data, toplevel |-> toplevel, missing_parent |-> missing_parent, done |-> done]

\* 2789-2808: down to the data level of the node
RECURSIVE mand_level(_, _, _, _, _, _)
mand_level(nd, dt, set, i, data, toplevel) ==
  IF i = 0 THEN MandLevel(data, toplevel, NULL, FALSE)
  ELSE IF mand_find(dt, mand_siblings(dt, data, toplevel), {set[i]}) = NULL
  THEN MandLevel(data, toplevel, set[i], FALSE)
  ELSE IF dt[mand_find(dt, mand_siblings(dt, data, toplevel), {set[i]})].validity = "LYD_VAL_OK"
  THEN MandLevel(data, toplevel, NULL, TRUE)
  ELSE mand_level(nd, dt, set, i - 1,
                  mand_find(dt, mand_siblings(dt, data, toplevel), {set[i]}), FALSE)

\* 2826-2846: the node is in a case none of whose children has an instance
mand_no_sibling(nd, dt, node, lv) ==
  /\ lys_parent(nd, node) # NULL
  /\ nd[lys_parent(nd, node)].nodetype = "case"
  /\ mand_find(dt, mand_siblings(dt, lv.data, lv.toplevel),
               SeqSet(Chain(nd, nd[lys_parent(nd, node)].child, Fuel))) = NULL

\* 2848-2863: an instance of the node, for a choice of a node below it
mand_instance(nd, dt, node, lv) ==
  IF nd[node].nodetype = "choice"
  THEN mand_find(dt, mand_siblings(dt, lv.data, lv.toplevel),
                 SeqSet(getnext_all(nd, NULL, node, NULL, {}, Fuel))) # NULL
  ELSE mand_find(dt, mand_siblings(dt, lv.data, lv.toplevel), {node}) # NULL

\* 2884-2893
mand_minmax(nd, dt, node, lv) ==
  IF lv.missing_parent # NULL THEN 0
  ELSE Cardinality({i \in 1..Len(mand_siblings(dt, lv.data, lv.toplevel)) :
                      dt[mand_siblings(dt, lv.data, lv.toplevel)[i]].schema = node})

\* 2895-2912
mand_count(nd, dt, node, lv) ==
  IF nd[node].min # 0 /\ mand_minmax(nd, dt, node, lv) < nd[node].min THEN "fail"
  ELSE IF nd[node].max # 0 /\ mand_minmax(nd, dt, node, lv) > nd[node].max THEN "fail"
  ELSE "ok"

\* 2815-2914
mand_verdict(nd, dt, node, lv) ==
  IF "MAND_TRUE" \in nd[node].flags
  THEN IF lv.missing_parent # NULL THEN "fail"
       ELSE IF nd[node].nodetype \notin {"leaf", "anyxml", "choice"} THEN "fail"
       ELSE IF mand_no_sibling(nd, dt, node, lv) THEN "ok"
       ELSE IF mand_instance(nd, dt, node, lv) THEN "ok"
       ELSE "fail"
  ELSE IF nd[node].nodetype \in {"list", "leaflist"} THEN mand_count(nd, dt, node, lv)
  ELSE "ok"

\* 2765: toplevel
mand_toplevel(nd, stop) == ~(stop # NULL /\ nd[stop].nodetype # "output")

\* 2768-2813
mand_data_level(nd, dt, node, stop, data) ==
  IF data # NULL
  THEN mand_level(nd, dt, mand_set(nd, lys_parent(nd, node), stop, Fuel),
                  Len(mand_set(nd, lys_parent(nd, node), stop, Fuel)), data,
                  mand_toplevel(nd, stop))
  ELSE MandLevel(data, mand_toplevel(nd, stop), node, FALSE)

mand_check_level(nd, dt, node, lv) ==
  IF lv.done THEN "ok" ELSE mand_verdict(nd, dt, node, lv)

\* 2758-2915
check_mand_check(nd, dt, node, stop, data) ==
  mand_check_level(nd, dt, node, mand_data_level(nd, dt, node, stop, data))

\* ----------------------------------------------------------------------
\* ly_check_mandatory
\* ----------------------------------------------------------------------
\* no node of the checked schemas has an if-feature
lys_is_disabled(nd, node) == FALSE

\* 2939, 2973
mand_skipped(nd, siter, status) ==
  lys_is_disabled(nd, siter) \/ (~status /\ "CONFIG_R" \in nd[siter].flags)

\* the arguments of a call and what 2926-2935 derive from them
MandCall(data, schema, datasearch, status, rpc_output) ==
  [data |-> data, schema |-> schema, datasearch |-> datasearch, status |-> status,
   rpc_output |-> rpc_output]

\* 2955-2962: some node of the subtree of the container siter fails
mand_subtree_fails(nd, dt, siter, a) ==
  /\ nd[siter].nodetype = "container"
  /\ ~nd[siter].presence
  /\ \E saux \in SeqSet(mand_getnext_all(nd, NULL, siter, Fuel)) :
       /\ a.status \/ "CONFIG_W" \in nd[saux].flags
       /\ check_mand_check(nd, dt, saux, lys_parent(nd, siter), a.data) = "fail"

\* 2992-2999: some mandatory sibling in the case parent2 fails
mand_case_fails(nd, dt, parent2, saux, a) ==
  /\ parent2 # NULL
  /\ nd[parent2].nodetype = "case"
  /\ \E saux2 \in SeqSet(mand_getnext_all(nd, NULL, parent2, Fuel)) :
       check_mand_check(nd, dt, saux2, lys_parent(nd, saux), a.data) = "fail"

\* 2971-3034: the search for an instance of the choice saux
RECURSIVE mand_choice(_, _, _, _, _, _, _)
mand_choice(nd, dt, siter, parent2, saux, a, fuel) ==
  IF fuel = 0 THEN "endless"
  ELSE IF siter # NULL /\ a.data # NULL
  THEN IF mand_skipped(nd, siter, a.status)
       THEN mand_choice(nd, dt, nd[siter].next, parent2, saux, a, fuel - 1)
       ELSE IF nd[siter].nodetype \in {"container", "leaf", "leaflist", "list", "anyxml"}
       THEN IF mand_find(dt, Chain(dt, a.datasearch, Fuel), {siter}) # NULL
            THEN IF mand_case_fails(nd, dt, parent2, saux, a) THEN "fail" ELSE "found"
            ELSE mand_choice(nd, dt, nd[siter].next, parent2, saux, a, fuel - 1)
       ELSE IF nd[siter].nodetype \in {"case", "choice", "uses"}
       THEN mand_choice(nd, dt, nd[siter].child, IF parent2 = NULL THEN siter ELSE parent2,
                        saux, a, fuel - 1)
       ELSE IF nd[siter].nodetype \in {"augment", "grouping"}
       THEN mand_choice(nd, dt, nd[siter].next, parent2, saux, a, fuel - 1)
       ELSE "endless"
  ELSE IF parent2 # NULL
  THEN mand_choice(nd, dt, nd[parent2].next,
                   IF lys_parent(nd, parent2) = saux THEN NULL ELSE lys_parent(nd, parent2),
                   saux, a, fuel - 1)
  ELSE "notfound"

\* 2965-3040: the choice siter makes the check fail
mand_choice_fails(nd, dt, siter, a) ==
  \/ mand_choice(nd, dt, nd[siter].child, NULL, siter, a, 3 * Fuel) = "fail"
  \/ /\ mand_choice(nd, dt, nd[siter].child, NULL, siter, a, 3 * Fuel) = "notfound"
     /\ "MAND_TRUE" \in nd[siter].flags

\* 2937-3083: from the label repeat on
RECURSIVE mand_repeat(_, _, _, _, _, _)
mand_repeat(nd, dt, siter, parent, a, fuel) ==
  IF fuel = 0 THEN "endless"
  ELSE IF siter = NULL
  THEN IF parent = NULL THEN "ok"
       ELSE mand_repeat(nd, dt, nd[parent].next,
                        IF lys_parent(nd, parent) = a.schema THEN NULL
                        ELSE lys_parent(nd, parent), a, fuel - 1)
  ELSE IF mand_skipped(nd, siter, a.status)
  THEN mand_repeat(nd, dt, nd[siter].next, parent, a, fuel - 1)
  ELSE IF nd[siter].nodetype \in {"container", "leaf", "anyxml", "list", "leaflist"}
  THEN IF check_mand_check(nd, dt, siter, lys_parent(nd, siter), a.data) = "fail" THEN "fail"
       ELSE IF mand_subtree_fails(nd, dt, siter, a) THEN "fail"
       ELSE mand_repeat(nd, dt, nd[siter].next, parent, a, fuel - 1)
  ELSE IF nd[siter].nodetype = "choice"
  THEN IF mand_choice_fails(nd, dt, siter, a) THEN "fail"
       ELSE mand_repeat(nd, dt, nd[siter].next, parent, a, fuel - 1)
  ELSE IF nd[siter].nodetype = "input" /\ a.rpc_output
  THEN mand_repeat(nd, dt, nd[siter].next, parent, a, fuel - 1)
  ELSE IF nd[siter].nodetype = "output" /\ ~a.rpc_output
  THEN mand_repeat(nd, dt, nd[siter].next, parent, a, fuel - 1)
  ELSE IF nd[siter].nodetype \in {"input", "output", "uses", "case"}
  THEN mand_repeat(nd, dt, nd[siter].child, siter, a, fuel - 1)
  ELSE mand_repeat(nd, dt, nd[siter].next, parent, a, fuel - 1)

\* 2917-3084
ly_check_mandatory(nd, dt, data, schema, status, rpc_output) ==
  IF schema # NULL
  THEN mand_repeat(nd, dt, schema, NULL, MandCall(data, schema, data, status, rpc_output),
                   3 * Fuel)
  ELSE mand_repeat(nd, dt, nd[dt[data].schema].child, NULL,
                   MandCall(data, dt[data].schema, dt[data].child, status, rpc_output),
                   3 * Fuel)

\* ----------------------------------------------------------------------
\* The mandatory check of a parsed data tree
\* ----------------------------------------------------------------------
MandIds == 1..MaxMandNodes

MandShape(nodetype, flags, presence, min, max) ==
  [nodetype |-> nodetype, flags |-> flags, presence |-> presence, min |-> min, max |-> max]

\* the statements a schema node is read from
MandShapes ==
  {MandShape("container", {"CONFIG_W"}, pr, 0, 0) : pr \in BOOLEAN}
    \cup {MandShape(nt, {"CONFIG_W"} \cup fl, FALSE, 0, 0) :
            nt \in {"leaf", "choice"}, fl \in {{}, {"MAND_TRUE"}}}
    \cup {MandShape("case", {"CONFIG_W"}, FALSE, 0, 0),
          MandShape("leaflist", {"CONFIG_W"}, FALSE, 1, 1)}

\* what a statement may hold: a choice holds cases and shorthand cases
MandChildTypes(nodetype) ==
  IF nodetype = "choice" THEN {"case", "container", "leaf", "leaflist"}
  ELSE IF nodetype \in {"container", "case", "top"}
  THEN {"container", "leaf", "leaflist", "choice"}
  ELSE {}

MandTreeOk(ids, sh, pa) ==
  \A n \in ids :
    sh[n].nodetype \in MandChildTypes(IF pa[n] = NULL THEN "top" ELSE sh[pa[n]].nodetype)

\* the schema trees with the nodes ids
MandTrees(ids) ==
  UNION {{[n \in ids |-> [nodetype |-> sh[n].nodetype, flags |-> sh[n].flags,
                          presence |-> sh[n].presence, min |-> sh[n].min,
                          max |-> sh[n].max, parent |-> pa[n]]] :
            sh \in {x \in [ids -> MandShapes] : MandTreeOk(ids, x, pa)}} :
           pa \in TreeParents(ids)}

\* the node whose instance holds the instances of node: the nearest container
MandDataParent(nd, node) ==
  IF mand_set(nd, lys_parent(nd, node), NULL, Fuel) = <<>> THEN NULL
  ELSE Head(mand_set(nd, lys_parent(nd, node), NULL, Fuel))

\* the data trees a parser builds for the schema nd: every instance below the
\* instance of its schema parent, one instance of a leaf or container at most
MandDataOk(nd, sc, pa, k) ==
  \A d \in 1..k :
    /\ nd[sc[d]].nodetype \in {"container", "leaf", "leaflist"}
    /\ MandDataParent(nd, sc[d]) = (IF pa[d] = NULL THEN NULL ELSE sc[pa[d]])
    /\ nd[sc[d]].nodetype = "leaflist"
         \/ \A e \in 1..k : (sc[e] = sc[d] /\ pa[e] = pa[d]) => e = d

MandDataOf(nd, k) ==
  UNION {{[d \in 1..k |-> [schema |-> sc[d], parent |-> pa[d]]] :
            sc \in {x \in [1..k -> DOMAIN nd] : MandDataOk(nd, x, pa, k)}} :
           pa \in TreeParents(1..k)}

\* the heap of the data tree t
DataHeap(t) ==
  [d \in DOMAIN t |->
     [schema |-> t[d].schema, parent |-> t[d].parent, validity |-> "LYD_VAL_NOT",
      child |-> FirstOfSet({e \in DOMAIN t : t[e].parent = d}),
      next |-> FirstOfSet({e \in DOMAIN t : e > d /\ t[e].parent = t[d].parent})]]

MandOp(name, ret, data, schema) == [name |-> name, ret |-> ret, data |-> data, schema |-> schema]

InitMand ==
  /\ nodes \in {SchemaHeap(t) : t \in MandTrees(MandIds)}
  /\ \E k \in 0..MaxInstances : models \in {DataHeap(t) : t \in MandDataOf(nodes, k)}
  /\ mods = <<>>
  /\ cur = "parsed"
  /\ op = MandOp("lyd_parse", "ok", NULL, NULL)
  /\ load = <<>>

\* the check of the whole tree: the top-level schema nodes against the top-level data
MandCheckTree(status) ==
  /\ op.name = "lyd_parse"
  /\ op' = MandOp("ly_check_mandatory",
                  ly_check_mandatory(nodes, models, SchemaData(models), SchemaData(nodes),
                                     status, FALSE),
                  SchemaData(models), SchemaData(nodes))
  /\ cur' = "checked"
  /\ UNCHANGED <<nodes, mods, models, load>>

\* the check of the children of one container instance
MandCheckNode(data, status) ==
  /\ op.name = "lyd_parse"
  /\ nodes[models[data].schema].nodetype = "container"
  /\ op' = MandOp("ly_check_mandatory",
                  ly_check_mandatory(nodes, models, data, NULL, status, FALSE), data, NULL)
  /\ cur' = "checked"
  /\ UNCHANGED <<nodes, mods, models, load>>

NextMand ==
  \/ \E status \in BOOLEAN : MandCheckTree(status)
  \/ \E data \in DOMAIN models, status \in BOOLEAN : MandCheckNode(data, status)

SpecMand == InitMand /\ [][NextMand]_vars

\* the schema nodes above node
RECURSIVE MandAncestors(_, _, _)
MandAncestors(nd, node, fuel) ==
  IF fuel = 0 \/ lys_parent(nd, node) = NULL THEN {}
  ELSE {lys_parent(nd, node)} \cup MandAncestors(nd, lys_parent(nd, node), fuel - 1)

\* node and the nodes below it whose instances stand beside the instances of node:
\* those reached through choices and cases
MandBelow(nd, node) ==
  {m \in DOMAIN nd : /\ m = node \/ node \in MandAncestors(nd, m, Fuel)
                     /\ MandDataParent(nd, m) = MandDataParent(nd, node)}

MandInstances(dt, set) == {d \in DOMAIN dt : dt[d].schema \in set}

\* no presence container above node lacks an instance
MandReachable(nd, dt, node) ==
  \A a \in MandAncestors(nd, node, Fuel) :
    (nd[a].nodetype = "container" /\ nd[a].presence) => MandInstances(dt, {a}) # {}

\* the cases of a choice: its children, a child that is no case being a case of its own
MandCases(nd, choice) == {c \in DOMAIN nd : nd[c].parent = choice}

\* every case node stands in, or is, has an instance (RFC 6020 7.6.5 rule 2, 7.9.4)
MandCaseActive(nd, dt, node) ==
  \A a \in MandAncestors(nd, node, Fuel) \cup {node} :
    (/\ MandDataParent(nd, a) = MandDataParent(nd, node)
     /\ lys_parent(nd, a) # NULL
     /\ nd[lys_parent(nd, a)].nodetype = "choice")
      => MandInstances(dt, MandBelow(nd, a)) # {}

\* what the tree owes to the schema node
MandHolds(nd, dt, node) ==
  MandReachable(nd, dt, node) =>
    /\ ("MAND_TRUE" \in nd[node].flags /\ MandCaseActive(nd, dt, node))
         => MandInstances(dt, MandBelow(nd, node)) # {}
    /\ nd[node].nodetype = "choice"
         => Cardinality({c \in MandCases(nd, node) :
                           MandInstances(dt, MandBelow(nd, c)) # {}}) <= 1
    /\ (nd[node].nodetype \in {"list", "leaflist"} /\ MandCaseActive(nd, dt, node))
         => /\ Cardinality(MandInstances(dt, {node})) >= nd[node].min
            /\ nd[node].max = 0 \/ Cardinality(MandInstances(dt, {node})) <= nd[node].max

\* the schema nodes a call checks: all of them, or those below the schema of data
MandScope(nd, dt, o) ==
  IF o.schema # NULL THEN DOMAIN nd
  ELSE {m \in DOMAIN nd : dt[o.data].schema \in MandAncestors(nd, m, Fuel)}

SwitchParent == 1
SwitchSibling(i) == 1 + i
SwitchChildOf(k, j) == 1 + k + j
SwitchSrc(k, nch) == 2 + k + nch

\* k siblings below SwitchParent or at the top level, the one at pos with nch
\* children, and the detached node that is to take its place
SwitchHeap(k, pos, top, nch) ==
  [n \in 1..SwitchSrc(k, nch) |->
     IF n = SwitchParent
     THEN [ZeroNode EXCEPT !.name = "p", !.nodetype = "container", !.module = TreeMod,
                           !.prev = n, !.child = IF top THEN NULL ELSE SwitchSibling(1)]
     ELSE IF n <= SwitchSibling(k)
     THEN [ZeroNode EXCEPT !.name = IF n = SwitchSibling(pos) THEN "t" ELSE "s",
                           !.nodetype = "container", !.module = TreeMod,
                           !.parent = IF top THEN NULL ELSE SwitchParent,
                           !.next = IF n < SwitchSibling(k) THEN n + 1 ELSE NULL,
                           !.prev = IF n = SwitchSibling(1) THEN SwitchSibling(k) ELSE n - 1,
                           !.child = IF n = SwitchSibling(pos) /\ nch > 0
                                     THEN SwitchChildOf(k, 1) ELSE NULL]
     ELSE IF n <= SwitchChildOf(k, nch)
     THEN [ZeroNode EXCEPT !.name = "c", !.nodetype = "leaf", !.module = TreeMod,
                           !.parent = SwitchSibling(pos),
                           !.next = IF n < SwitchChildOf(k, nch) THEN n + 1 ELSE NULL,
                           !.prev = IF n = SwitchChildOf(k, 1) THEN SwitchChildOf(k, nch)
                                    ELSE n - 1]
     ELSE [ZeroNode EXCEPT !.name = "t", !.nodetype = "container", !.module = TreeMod,
                           !.prev = n]]

SwitchOp(name, dst, src, first, old) ==
  [name |-> name, dst |-> dst, src |-> src, first |-> first, old |-> old]

\* cur is dev->orig_node, load the target; models is the module's data pointer when
\* the siblings are top-level nodes, NULL when they have a parent
InitSwitch ==
  \E k \in 1..MaxSiblings, nch \in 0..MaxSwitchChildren, top \in BOOLEAN :
    \E pos \in 1..k :
      /\ nodes = SwitchHeap(k, pos, top, nch)
      /\ mods = <<>>
      /\ models = IF top THEN SwitchSibling(1) ELSE NULL
      /\ cur = SwitchSrc(k, nch)
      /\ load = SwitchSibling(pos)
      /\ op = SwitchOp("yang_read_deviation", NULL, NULL, NULL, <<>>)

\* the first sibling of the list: dst->parent->child or module->data
SwitchFirst(nd, data) == IF data # NULL THEN data ELSE nd[SwitchParent].child

\* 5469-5478: lys_node_switch(target, dev->orig_node); dev->orig_node = target;
SwitchDeviation ==
  /\ nodes' = lys_node_switch(nodes, load, cur)
  /\ cur' = load
  /\ load' = cur
  /\ op' = SwitchOp("lys_node_switch", load, cur, SwitchFirst(nodes, models), nodes)
  /\ UNCHANGED <<mods, models>>

NextSwitch == SwitchDeviation

SpecSwitch == InitSwitch /\ [][NextSwitch]_vars

\* following next from n ends at null within the nodes of the heap
RECURSIVE SwitchEnds(_, _, _)
SwitchEnds(nd, n, fuel) ==
  IF n = NULL THEN TRUE
  ELSE IF fuel = 0 THEN FALSE
  ELSE SwitchEnds(nd, nd[n].next, fuel - 1)

\* the list from n, cut where it runs into a cycle
SwitchList(nd, n) == Chain(nd, n, Cardinality(DOMAIN nd) + 1)

\* the sibling list s with src in the place of dst
SwitchReplaced(s, dst, src) == [i \in 1..Len(s) |-> IF s[i] = dst THEN src ELSE s[i]]

\* C26: lys_node_switch(dst, src) puts src exactly in dst's place and keeps the
\* sibling list well-formed at every position of dst: following next from the first
\* sibling ends at null, the first sibling's prev is the last sibling, src has dst's
\* former parent, neighbours and children (whose parent is now src), the parent's
\* child pointer or the module's data pointer designates src when dst was first,
\* and dst is left detached
C26_SwitchWellFormed ==
  op.name = "lys_node_switch" =>
    LET first == SwitchFirst(nodes, models)
        list == SwitchList(nodes, first)
        was == SwitchList(op.old, op.first)
    IN /\ SwitchEnds(nodes, first, Cardinality(DOMAIN nodes))
       /\ list = SwitchReplaced(was, op.dst, op.src)
       /\ nodes[first].prev = list[Len(list)]
       /\ \A i \in 2..Len(list) : nodes[list[i]].prev = list[i - 1]
       /\ nodes[op.src].parent = op.old[op.dst].parent
       /\ nodes[op.src].child = op.old[op.dst].child
       /\ \A c \in SeqSet(SwitchList(nodes, nodes[op.src].child)) : nodes[c].parent = op.src
       /\ op.first = op.dst => first = op.src
       /\ nodes[op.dst].parent = NULL
       /\ nodes[op.dst].next = NULL
       /\ nodes[op.dst].prev = op.dst
       /\ nodes[op.dst].child = NULL

\* ----------------------------------------------------------------------
\* C27: the deviated flag and the state of the deviations
\* ----------------------------------------------------------------------
\* the calls of lys_switch_deviations that switched the deviations of E: those on
\* a module that holds E as an import flagged external = 2
SwitchesOfE ==
  LET on(m) == IF \E j \in ImportsOf(m, ModE) : mods[m].imp[j].external = 2
               THEN load.switches[m] ELSE 0
  IN on(ModC) + on(ModD) + on(ModE)

\* the deviations of E are in the trees of their targets: applied by the load and
\* switched an even number of times since
DeviationsApplied == SwitchesOfE % 2 = 0

\* Specification SpecFlag: module E is loaded deviation by deviation, then the
\* deviations of the repository are switched
NextFlag ==
  \/ DevReadNode
  \/ RepoBegin
  \/ RepoDeviation
  \/ RepoFinish
  \/ SwitchDeviations

SpecFlag == InitRepo /\ [][NextFlag]_vars

\* C27: after any sequence of module loads and lys_switch_deviations calls the flag
\* deviated of every module that owns a deviation target is set exactly when the
\* deviations that target its nodes are applied to its tree, also when the
\* deviating module has deviations of two different modules
C27_DeviatedFlagTracksState ==
  load.phase = "loaded" =>
    \A i \in 1..Len(mods[ModE].deviation) :
      mods[DeviatedModule(i)].deviated = 1 <=> DeviationsApplied

\* ----------------------------------------------------------------------
\* The iteration with lys_getnext
\* ----------------------------------------------------------------------
NextIds == 1..MaxNextNodes
NextTypes == {"container", "leaf", "uses", "choice", "case", "grouping"}

\* what a statement may hold
NextChildTypes(nodetype) ==
  IF nodetype = "choice" THEN {"case", "container", "leaf"}
  ELSE IF nodetype = "uses" THEN {"container", "leaf", "uses", "choice"}
  ELSE IF nodetype \in {"container", "case", "grouping", "top"}
  THEN {"container", "leaf", "uses", "choice", "grouping"} \ (IF nodetype = "case"
                                                               THEN {"grouping"} ELSE {})
  ELSE {}

NextTreeOk(ids, ty, pa) ==
  \A n \in ids : ty[n] \in NextChildTypes(IF pa[n] = NULL THEN "top" ELSE ty[pa[n]])

\* the schema trees with the nodes ids
NextTrees(ids) ==
  UNION {{[n \in ids |-> [nodetype |-> ty[n], parent |-> pa[n], flags |-> {},
                          presence |-> FALSE, min |-> 0, max |-> 0]] :
            ty \in {y \in [ids -> NextTypes] : NextTreeOk(ids, y, pa)}} :
           pa \in TreeParents(ids)}

\* the iteration: its parent argument, the last node returned, and whether NULL
\* was returned
NextCur(parent, last, done) == [parent |-> parent, last |-> last, done |-> done]
NextOp(name, returned) == [name |-> name, returned |-> returned]

InitNext ==
  /\ nodes \in {SchemaHeap(t) : t \in NextTrees(NextIds)}
  /\ mods = <<>>
  /\ models = SchemaData(nodes)
  /\ \E parent \in {NULL} \cup {n \in NextIds : nodes[n].nodetype = "container"} :
       cur = NextCur(parent, NULL, FALSE)
  /\ op = NextOp("init", <<>>)
  /\ load = <<>>

GetNextReturned(next) ==
  /\ cur' = [cur EXCEPT !.last = IF next = NULL THEN @ ELSE next, !.done = next = NULL]
  /\ op' = NextOp("lys_getnext", IF next = NULL THEN op.returned
                                 ELSE Append(op.returned, next))
  /\ UNCHANGED <<nodes, mods, models, load>>

\* one call of the loop while ((node = lys_getnext(node, parent, module, 0)))
GetNext ==
  /\ ~cur.done
  /\ Len(op.returned) <= MaxNextNodes
  /\ GetNextReturned(lys_getnext(nodes, cur.last, cur.parent, models, {}))

NextNext == GetNext

SpecNext == InitNext /\ [][NextNext]_vars

\* the nodes above node up to parent, parent left out; NULL among them where
\* parent is not above node
RECURSIVE NextPath(_, _, _, _)
NextPath(nd, node, parent, fuel) ==
  IF nd[node].parent = parent THEN {}
  ELSE IF nd[node].parent = NULL \/ fuel = 0 THEN {NULL}
  ELSE {nd[node].parent} \cup NextPath(nd, nd[node].parent, parent, fuel - 1)

\* the data nodes that are children of parent directly or through uses, choice
\* and case nodes, in document order
NextExpected(nd, parent) ==
  LET set == {n \in DOMAIN nd :
                /\ nd[n].nodetype \in {"container", "leaf"}
                /\ \A a \in NextPath(nd, n, parent, Fuel) :
                     a # NULL /\ nd[a].nodetype \in {"uses", "choice", "case"}}
      RECURSIVE order(_)
      order(rest) == IF rest = {} THEN <<>>
                     ELSE <<FirstOfSet(rest)>> \o order(rest \ {FirstOfSet(rest)})
  IN order(set)

\* C28: iterating lys_getnext from last = NULL with options 0 until it returns NULL
\* terminates and returns, in document order and exactly once each, every data
\* node that is a child of parent (or a top-level node) directly or through any
\* nesting of uses, choice and case nodes, including the nodes that follow a uses,
\* choice or case without children, and never a grouping or a node of a grouping
C28_GetnextEnumerates ==
  /\ Len(op.returned) <= Len(NextExpected(nodes, cur.parent))
  /\ op.returned = SubSeq(NextExpected(nodes, cur.parent), 1, Len(op.returned))
  /\ cur.done => op.returned = NextExpected(nodes, cur.parent)

\* ----------------------------------------------------------------------
\* C29: what a deviate delete leaves in the target
\* ----------------------------------------------------------------------
\* the array after holds the entries of before but one entry that satisfies hit
DeletedOne(before, after, hit(_)) ==
  /\ Len(after) = Len(before) - 1
  /\ \E i \in 1..Len(before) :
       /\ hit(before[i])
       /\ \A e \in SeqSet(before) :
            RevCount(after, e) = RevCount(before, e) - (IF e = before[i] THEN 1 ELSE 0)
  /\ SeqSet(after) \subseteq SeqSet(before)

\* C29: after a successful deviate delete step the target no longer has the deleted
\* value: deleted units leave the leaf or leaf-list with no units, a deleted default
\* leaves the leaf or choice with no default, and a deleted must (unique) leaves the
\* must (unique) array of the target one entry shorter, with exactly the other
\* original entries, their fields intact
C29_DeleteRemovesValue ==
  (op.name \in {"units", "default", "must", "unique"} /\ op.mod = "del" /\ op.ret = "ok")
    => LET hitMust(e) == e.expr = op.arg
           hitUnique(e) == e = op.arg
       IN /\ op.name = "units" => nodes[op.seen.target].units = NULLSTR
          /\ op.name = "default" => /\ nodes[op.seen.target].dflt = NULLSTR
                                    /\ nodes[op.seen.target].cdflt = NULL
          /\ op.name = "must"
               => DeletedOne(op.seen.node.must, nodes[op.seen.target].must, hitMust)
          /\ op.name = "unique"
               => DeletedOne(op.seen.node.unique, nodes[op.seen.target].unique, hitUnique)

\* ----------------------------------------------------------------------
\* printer_xml.c: the namespaces and attributes of the printed data
\* ----------------------------------------------------------------------
\* the modules of the context: A and B define the data, B the attributes, W is
\* ietf-netconf-with-defaults
XmlA == 1
XmlB == 2
XmlW == 3
XmlMods ==
  <<[name |-> "a", prefix |-> "a"], [name |-> "b", prefix |-> "b"],
    [name |-> "ietf-netconf-with-defaults", prefix |-> "ncwd"]>>

\* ly_ctx_get_module(ctx, name, NULL): the module of that name in the context ctx
ly_ctx_get_module(ctx, name) ==
  IF \A i \in 1..Len(ctx) : XmlMods[ctx[i]].name # name THEN NULL
  ELSE ctx[FirstOfSet({i \in 1..Len(ctx) : XmlMods[ctx[i]].name = name})]

\* what ly_print writes: the start of an element, a namespace declaration, an
\* attribute, and the end of an element, each with the data node it is written for
XmlToken(kind, node, prefix, name) ==
  [kind |-> kind, node |-> node, prefix |-> prefix, name |-> name]

\* 42-64
modlist_add(mlist, mod) == IF mod \in SeqSet(mlist) THEN mlist ELSE <<mod>> \o mlist

\* 77-81, 95-99: the modules of the attributes attr
RECURSIVE modlist_add_attrs(_, _)
modlist_add_attrs(mlist, attr) ==
  IF attr = <<>> THEN mlist
  ELSE modlist_add_attrs(modlist_add(mlist, Head(attr)), Tail(attr))

\* 90-99: one node of the walk
modlist_add_node(nd, mlist, cur_node, wdmod) ==
  modlist_add_attrs(IF nd[cur_node].dflt /\ wdmod # NULL THEN modlist_add(mlist, wdmod)
                    ELSE mlist,
                    nd[cur_node].attr)

\* the nodes below node in the order of LY_TREE_FOR(node->child) LY_TREE_DFS_BEGIN
RECURSIVE XmlAbove(_, _, _)
XmlAbove(nd, node, fuel) ==
  IF nd[node].parent = NULL \/ fuel = 0 THEN {}
  ELSE {nd[node].parent} \cup XmlAbove(nd, nd[node].parent, fuel - 1)

XmlBelow(nd, node) == {n \in DOMAIN nd : node \in XmlAbove(nd, n, Fuel)}

\* 88-101: the walk over the nodes below node, in document order
RECURSIVE modlist_add_below(_, _, _, _)
modlist_add_below(nd, mlist, rest, wdmod) ==
  IF rest = {} THEN mlist
  ELSE modlist_add_below(nd, modlist_add_node(nd, mlist, FirstOfSet(rest), wdmod),
                         rest \ {FirstOfSet(rest)}, wdmod)

\* 83-102: children nodes and attribute modules
modlist_children(nd, ctx, mlist, node) ==
  IF nd[node].nodetype \in {"leaf", "leaflist", "anyxml"} THEN mlist
  ELSE modlist_add_below(nd, mlist, XmlBelow(nd, node),
                         ly_ctx_get_module(ctx, "ietf-netconf-with-defaults"))

\* 66-114
xml_print_ns(nd, ctx, node) ==
  [i \in 1..Len(modlist_children(nd, ctx, modlist_add_attrs(<<>>, nd[node].attr), node)) |->
     XmlToken("xmlns", node,
              XmlMods[modlist_children(nd, ctx, modlist_add_attrs(<<>>, nd[node].attr),
                                       node)[i]].prefix, "")]

\* 126-135: with-defaults
xml_print_default(nd, ctx, node) ==
  IF nd[node].dflt /\ ly_ctx_get_module(ctx, "ietf-netconf-with-defaults") # NULL
  THEN <<XmlToken("attr", node,
                  XmlMods[ly_ctx_get_module(ctx, "ietf-netconf-with-defaults")].prefix,
                  "default")>>
  ELSE <<>>

\* 116-170: no node is the filter of ietf-netconf
xml_print_attrs(nd, ctx, node) ==
  xml_print_default(nd, ctx, node)
    \o [i \in 1..Len(nd[node].attr) |->
          XmlToken("attr", node, XmlMods[nd[node].attr[i]].prefix, "x")]

\* 180-186, 304-314: the start tag, with the namespace of the module where it differs
\* from the parent's
xml_print_start(nd, node, toplevel) ==
  <<XmlToken("start", node,
             IF toplevel \/ nd[node].parent = NULL
                  \/ nd[node].module # nd[nd[node].parent].module
             THEN XmlMods[nd[node].module].prefix ELSE "", "")>>

\* 180-192, 304-320: the element up to its attributes
xml_print_open(nd, ctx, node, toplevel) ==
  xml_print_start(nd, node, toplevel)
    \o (IF toplevel THEN xml_print_ns(nd, ctx, node) ELSE <<>>)
    \o xml_print_attrs(nd, ctx, node)

\* 172-300 for a leaf of a type without prefixes in its value; 302-333
RECURSIVE xml_print_node(_, _, _, _, _)
RECURSIVE xml_print_children(_, _, _, _)
xml_print_node(nd, ctx, node, toplevel, fuel) ==
  IF fuel = 0 THEN <<>>
  ELSE xml_print_open(nd, ctx, node, toplevel)
         \o xml_print_children(nd, ctx, nd[node].child, fuel - 1)
         \o <<XmlToken("end", node, "", "")>>

\* 328-330
xml_print_children(nd, ctx, child, fuel) ==
  IF child = NULL \/ fuel = 0 THEN <<>>
  ELSE xml_print_node(nd, ctx, child, FALSE, fuel)
         \o xml_print_children(nd, ctx, nd[child].next, fuel - 1)

\* 436-451
RECURSIVE xml_print_data(_, _, _, _, _)
xml_print_data(nd, ctx, root, options, fuel) ==
  IF root = NULL \/ fuel = 0 THEN <<>>
  ELSE xml_print_node(nd, ctx, root, TRUE, Fuel)
         \o (IF "LYP_WITHSIBLINGS" \in options
             THEN xml_print_data(nd, ctx, nd[root].next, options, fuel - 1)
             ELSE <<>>)

XmlIds == 1..MaxXmlNodes

\* a data node: its schema node is a container or a leaf of module A, it may be a
\* default node and carry an attribute of module B
XmlShapes ==
  [nodetype : {"container", "leaf"}, module : {XmlA}, dflt : BOOLEAN,
   attr : {<<>>, <<XmlB>>}]

XmlTreeOk(ids, sh, pa) ==
  \A n \in ids : pa[n] # NULL => sh[pa[n]].nodetype = "container"

\* the data trees with the nodes ids
XmlTrees(ids) ==
  UNION {{[n \in ids |->
             [nodetype |-> sh[n].nodetype, module |-> sh[n].module, dflt |-> sh[n].dflt,
              attr |-> sh[n].attr, parent |-> pa[n],
              child |-> FirstOfSet({m \in ids : pa[m] = n}),
              next |-> FirstOfSet({m \in ids : m > n /\ pa[m] = pa[n]})]] :
            sh \in {x \in [ids -> XmlShapes] : XmlTreeOk(ids, x, pa)}} :
           pa \in TreeParents(ids)}

XmlOp(name, options, out) == [name |-> name, options |-> options, out |-> out]

\* models is the list of the modules of the context
InitXml ==
  /\ nodes \in XmlTrees(XmlIds)
  /\ mods = XmlMods
  /\ models \in {<<XmlA, XmlB>>, <<XmlA, XmlB, XmlW>>}
  /\ cur = "parsed"
  /\ op = XmlOp("lyd_parse", {}, <<>>)
  /\ load = <<>>

XmlPrintData ==
  /\ cur = "parsed"
  /\ \E options \in SUBSET {"LYP_WITHSIBLINGS"} :
       op' = XmlOp("xml_print_data", options,
                   xml_print_data(nodes, models, SchemaData(nodes), options, Fuel))
  /\ cur' = "printed"
  /\ UNCHANGED <<nodes, mods, models, load>>

NextXml == XmlPrintData

SpecXml == InitXml /\ [][NextXml]_vars

\* the top-level node the data node stands in
XmlTop(nd, node) ==
  IF nd[node].parent = NULL THEN node
  ELSE CHOOSE t \in XmlAbove(nd, node, Fuel) : nd[t].parent = NULL

XmlTokens(out, kind) == {i \in 1..Len(out) : out[i].kind = kind}

\* C30: in the output of xml_print_data a default node carries the attribute
\* prefix:default exactly when ietf-netconf-with-defaults is in the context, and
\* every prefix of an attribute inside a printed top-level element (the
\* with-defaults prefix on the top-level node or on a descendant, the module prefix
\* of a data attribute) is declared once by an xmlns:prefix attribute of that
\* top-level element
C30_PrefixesDeclared ==
  op.name = "xml_print_data" =>
    /\ \A i \in XmlTokens(op.out, "start") :
         (\E j \in XmlTokens(op.out, "attr") :
            op.out[j].node = op.out[i].node /\ op.out[j].name = "default")
           <=> (nodes[op.out[i].node].dflt /\ XmlW \in SeqSet(models))
    /\ \A j \in XmlTokens(op.out, "attr") :
         Cardinality({k \in XmlTokens(op.out, "xmlns") :
                        /\ op.out[k].node = XmlTop(nodes, op.out[j].node)
                        /\ op.out[k].prefix = op.out[j].prefix}) = 1

====
